---- MODULE Spec2Model ----
(***************************************************************************)
(* A model of the gameboy-js emulator core: the MMU (address decoding,     *)
(* cartridge banking, register side effects), the CPU step (fetch,         *)
(* dispatch, deferred EI/DI), the timer, the LCD scanline machine, the     *)
(* interrupt dispatcher and the per-frame driver loop.                     *)
(*                                                                         *)
(* JavaScript numbers are modelled by integers plus the two values         *)
(* `undefined` and `NaN`, with the arithmetic, bitwise and comparison      *)
(* operators of the language applied to them.  The 64 KiB backing array,   *)
(* the cartridge image and the external RAM are kept sparsely: a cell that *)
(* was never stored to has the value the constructor / initialize() /      *)
(* setCartridgeData() left in it.                                          *)
(***************************************************************************)
EXTENDS Integers, Sequences, FiniteSets, TLC

VARIABLES gameboy, phase, cyclesExecuted, cycles, frames, steps, history

vars == <<gameboy, phase, cyclesExecuted, cycles, frames, steps, history>>

(***************************************************************************)
(* Bounds of the model.                                                    *)
(***************************************************************************)
\* number of invocations of emulationLoop that are followed
MaxFrames == 1
\* number of CPU steps followed by the instruction-level specification
MaxSteps == 3
\* number of MMU calls followed by the MMU-level specification
MaxCalls == 4
\* number of CPU steps followed on the scenario cartridges
MaxScenarioSteps == 14

(***************************************************************************)
(* JavaScript values.                                                      *)
(***************************************************************************)
undefined == -1073741824
NaN == -1073741823

IsNum(x) == x # undefined /\ x # NaN

\* ToInt32 of the operand of a bitwise operator
ToInt32(x) == IF IsNum(x) THEN x ELSE 0

\* width used for the two's complement representation of bitwise operands;
\* every number the program produces within the bounds fits in it
Width == 24

Pow2(n) == 2 ^ n

Unsigned(x) == ToInt32(x) % Pow2(Width)

Signed(u) == IF u >= Pow2(Width - 1) THEN u - Pow2(Width) ELSE u

RECURSIVE AndBits(_, _, _)
AndBits(a, b, n) ==
    IF n = 0 \/ a = 0 \/ b = 0 THEN 0
    ELSE (IF a % 2 = 1 /\ b % 2 = 1 THEN 1 ELSE 0)
         + 2 * AndBits(a \div 2, b \div 2, n - 1)

RECURSIVE XorBits(_, _, _)
XorBits(a, b, n) ==
    IF n = 0 THEN 0
    ELSE IF a = 0 THEN b
    ELSE IF b = 0 THEN a
    ELSE (IF a % 2 # b % 2 THEN 1 ELSE 0)
         + 2 * XorBits(a \div 2, b \div 2, n - 1)

\* a & b
BitAnd(a, b) == Signed(AndBits(Unsigned(a), Unsigned(b), Width))
\* a ^ b
BitXor(a, b) == Signed(XorBits(Unsigned(a), Unsigned(b), Width))
\* a | b
BitOr(a, b) ==
    Signed(Unsigned(a) + Unsigned(b) - AndBits(Unsigned(a), Unsigned(b), Width))
\* ~a
BitNot(a) == -ToInt32(a) - 1
\* a << n
Shl(a, n) == ToInt32(a) * Pow2(n)
\* a >> n
Shr(a, n) == ToInt32(a) \div Pow2(n)

\* a + b, a - b on numbers
JsAdd(a, b) == IF IsNum(a) /\ IsNum(b) THEN a + b ELSE NaN
JsSub(a, b) == IF IsNum(a) /\ IsNum(b) THEN a - b ELSE NaN
JsNeg(a) == IF IsNum(a) THEN -a ELSE NaN

\* a < b, a <= b, a > b, a >= b: false when an operand is not a number
JsLt(a, b) == IsNum(a) /\ IsNum(b) /\ a < b
JsLe(a, b) == IsNum(a) /\ IsNum(b) /\ a <= b
JsGt(a, b) == IsNum(a) /\ IsNum(b) /\ a > b
JsGe(a, b) == IsNum(a) /\ IsNum(b) /\ a >= b
\* a === b and a == b on these values
JsEq(a, b) == a # NaN /\ b # NaN /\ a = b

\* the condition of an if statement
Truthy(x) == x # 0 /\ IsNum(x)

\* var x = value; ...: the value is computed once and named x in F
Let(value, F(_)) == F(value)

(***************************************************************************)
(* Cartridge image: a Uint8Array of `size` bytes; `bytes` lists the bytes  *)
(* that are not 0x00.                                                      *)
(***************************************************************************)
CartByte(cart, i) ==
    IF IsNum(i) /\ i >= 0 /\ i < cart.size
    THEN (IF i \in DOMAIN cart.bytes THEN cart.bytes[i] ELSE 0)
    ELSE undefined

\* value a cell of the backing array has after initialize() and
\* setCartridgeData() when nothing was stored to it since
LoadedCell(cart, a) ==
    IF ~IsNum(a) \/ a < 0 \/ a > \hFFFF THEN undefined
    ELSE IF a < \h8000 THEN CartByte(cart, a)
    ELSE CASE a = \hFF00 -> \hFF
           [] a = \hFF10 -> \h80
           [] a = \hFF11 -> \hBF
           [] a = \hFF12 -> \hF3
           [] a = \hFF14 -> \hBF
           [] a = \hFF16 -> \h3F
           [] a = \hFF19 -> \hBF
           [] a = \hFF1A -> \h7F
           [] a = \hFF1B -> \hFF
           [] a = \hFF1C -> \h9F
           [] a = \hFF1E -> \hBF
           [] a = \hFF20 -> \hFF
           [] a = \hFF23 -> \hBF
           [] a = \hFF24 -> \h77
           [] a = \hFF25 -> \hF3
           [] a = \hFF26 -> \hF1
           [] a = \hFF40 -> \h91
           [] a = \hFF47 -> \hFC
           [] a = \hFF48 -> \hFF
           [] a = \hFF49 -> \hFF
           [] OTHER -> 0

\* this.memory[a]
Mem(m, a) == IF a \in DOMAIN m.memory THEN m.memory[a] ELSE LoadedCell(m.cartridgeData, a)

\* this.memory[a] = v
MemSet(m, a, v) ==
    [m EXCEPT !.memory = [x \in DOMAIN m.memory \cup {a} |->
                              IF x = a THEN v ELSE m.memory[x]]]

\* this.ramBanks[i]; the array is created empty and never filled
RamBank(m, i) == IF i \in DOMAIN m.ramBanks THEN m.ramBanks[i] ELSE undefined

(***************************************************************************)
(* MMU.                                                                    *)
(***************************************************************************)
\* the MMU after its constructor, initialize() and setCartridgeData(cart);
\* JOYPAD is an Array of eight 1s, which every bitwise operator converts
\* to 0, as it does NaN
LoadedMMU(cart) ==
    [memory |-> <<>>,
     cartridgeData |-> cart,
     JOYPAD |-> NaN,
     mbc1 |-> FALSE,
     mbc2 |-> FALSE,
     romBanking |-> TRUE,
     currentRomBank |-> 1,
     ramBanks |-> <<>>,
     currentRamBank |-> 0,
     enableRam |-> FALSE]

determineRomBankingType(m) ==
    LET t == Mem(m, \h147) IN
    IF t \in {1, 2, 3} THEN [m EXCEPT !.mbc1 = TRUE]
    ELSE IF t \in {5, 6} THEN [m EXCEPT !.mbc2 = TRUE]
    ELSE m

getJoypadState(m) ==
    LET result == BitXor(Mem(m, \hFF00), \hFF) IN
    IF Truthy(BitAnd(result, \h20))
    THEN BitAnd(result, BitOr(Shr(m.JOYPAD, 4), \hF0))
    ELSE IF Truthy(BitAnd(result, \h10))
    THEN BitAnd(result, BitOr(BitAnd(m.JOYPAD, \hF), \hF0))
    ELSE result

read(m, address) ==
    IF JsEq(address, \hFF00) THEN getJoypadState(m)
    ELSE IF JsGe(address, \h4000) /\ JsLe(address, \h7FFF)
    THEN CartByte(m.cartridgeData, (address - \h4000) + m.currentRomBank * \h4000)
    ELSE IF JsGe(address, \hA000) /\ JsLe(address, \hBFFF)
    THEN RamBank(m, (address - \hA000) + m.currentRamBank * \h2000)
    ELSE Mem(m, address)

doEnableRamBanking(m, address, data) ==
    IF m.mbc2
    THEN IF Truthy(BitAnd(address, 8)) THEN m
         ELSE LET lowerNibble == BitAnd(data, \hF) IN
              IF lowerNibble = \hA THEN [m EXCEPT !.enableRam = TRUE]
              ELSE IF lowerNibble = 0 THEN [m EXCEPT !.enableRam = FALSE]
              ELSE m
    ELSE m

\* doRomLoBankChange without the replacement of bank 0 by bank 1
doRomLoBankChangeKeepZero(m, data) ==
    IF m.mbc2
    THEN [m EXCEPT !.currentRomBank = BitAnd(data, \hF)]
    ELSE [m EXCEPT !.currentRomBank =
              BitOr(BitAnd(m.currentRomBank, \hE0), BitAnd(data, \h1F))]

doRomLoBankChange(m, data) ==
    IF m.mbc2
    THEN LET b == BitAnd(data, \hF) IN
         [m EXCEPT !.currentRomBank = IF b = 0 THEN b + 1 ELSE b]
    ELSE LET b == BitOr(BitAnd(m.currentRomBank, \hE0), BitAnd(data, \h1F)) IN
         [m EXCEPT !.currentRomBank = IF b = 0 THEN b + 1 ELSE b]

doRomHiBankChange(m, data) ==
    LET b == BitOr(BitAnd(m.currentRomBank, \h1F), BitAnd(data, \hE0)) IN
    [m EXCEPT !.currentRomBank = IF b = 0 THEN b + 1 ELSE b]

doRamBankChange(m, data) == [m EXCEPT !.currentRamBank = BitAnd(data, 2)]

\* doChangeRomRamMode selecting ROM bank 1 along with the mode
doChangeRomRamModeResetsBank(m, data) ==
    IF BitAnd(data, 1) = 0
    THEN [m EXCEPT !.romBanking = TRUE, !.currentRamBank = 0, !.currentRomBank = 1]
    ELSE [m EXCEPT !.romBanking = FALSE, !.currentRomBank = 1]

doChangeRomRamMode(m, data) ==
    IF BitAnd(data, 1) = 0
    THEN [m EXCEPT !.romBanking = TRUE, !.currentRamBank = 0]
    ELSE [m EXCEPT !.romBanking = FALSE]

handleBanking(m, address, data) ==
    IF JsLt(address, \h2000)
    THEN IF m.mbc1 \/ m.mbc2 THEN doEnableRamBanking(m, address, data) ELSE m
    ELSE IF JsGe(address, \h2000) /\ JsLt(address, \h4000)
    THEN IF m.mbc1 \/ m.mbc2 THEN doRomLoBankChange(m, data) ELSE m
    ELSE IF JsGe(address, \h4000) /\ JsLt(address, \h6000)
    THEN IF m.mbc1
         THEN IF m.romBanking THEN doRomHiBankChange(m, data)
              ELSE doRamBankChange(m, data)
         ELSE m
    ELSE IF JsGe(address, \h6000) /\ JsLt(address, \h8000)
    THEN IF m.mbc1 THEN doChangeRomRamMode(m, data) ELSE m
    ELSE m

RECURSIVE write(_, _, _)
RECURSIVE dmaLoop(_, _, _)

\* the loop of doDmaTransfer from OAM address i on
dmaLoop(m, i, sourceAddress) ==
    IF i > \hFE9F THEN m
    ELSE dmaLoop(write(m, i, read(m, sourceAddress)), i + 1, sourceAddress + 1)

doDmaTransfer(m, data) == dmaLoop(m, \hFE00, Shl(data, 8))

\* write storing to the echo area without the store to address - 0x2000
writeEchoUnmirrored(m, address, data) ==
    IF JsLt(address, \h8000) THEN handleBanking(m, address, data)
    ELSE IF JsGe(address, \hA000) /\ JsLt(address, \hC000)
    THEN IF m.enableRam
         THEN LET i == (address - \hA000) + m.currentRamBank * \h2000 IN
              [m EXCEPT !.ramBanks = [x \in DOMAIN m.ramBanks \cup {i} |->
                                         IF x = i THEN data ELSE m.ramBanks[x]]]
         ELSE m
    ELSE IF JsEq(address, \hFF04) THEN MemSet(m, address, 0)
    ELSE IF JsEq(address, \hFF44) THEN MemSet(m, address, 0)
    ELSE IF JsEq(address, \hFF46) THEN doDmaTransfer(m, data)
    ELSE IF JsGe(address, \hFEA0) /\ JsLt(address, \hFEFF) THEN m
    ELSE MemSet(m, address, data)

\* write storing the data byte in DIV and LY as in any other cell
writeStoresDivLy(m, address, data) ==
    IF JsLt(address, \h8000) THEN handleBanking(m, address, data)
    ELSE IF JsGe(address, \hA000) /\ JsLt(address, \hC000)
    THEN IF m.enableRam
         THEN LET i == (address - \hA000) + m.currentRamBank * \h2000 IN
              [m EXCEPT !.ramBanks = [x \in DOMAIN m.ramBanks \cup {i} |->
                                         IF x = i THEN data ELSE m.ramBanks[x]]]
         ELSE m
    ELSE IF JsEq(address, \hFF46) THEN doDmaTransfer(m, data)
    ELSE IF JsGe(address, \hFEA0) /\ JsLt(address, \hFEFF) THEN m
    ELSE IF JsGe(address, \hE000) /\ JsLe(address, \hFDFF)
    THEN MemSet(MemSet(m, address - \h2000, data), address, data)
    ELSE MemSet(m, address, data)

write(m, address, data) ==
    IF JsLt(address, \h8000) THEN handleBanking(m, address, data)
    ELSE IF JsGe(address, \hA000) /\ JsLt(address, \hC000)
    THEN IF m.enableRam
         THEN LET i == (address - \hA000) + m.currentRamBank * \h2000 IN
              [m EXCEPT !.ramBanks = [x \in DOMAIN m.ramBanks \cup {i} |->
                                         IF x = i THEN data ELSE m.ramBanks[x]]]
         ELSE m
    ELSE IF JsEq(address, \hFF04) THEN MemSet(m, address, 0)
    ELSE IF JsEq(address, \hFF44) THEN MemSet(m, address, 0)
    ELSE IF JsEq(address, \hFF46) THEN doDmaTransfer(m, data)
    ELSE IF JsGe(address, \hFEA0) /\ JsLt(address, \hFEFF) THEN m
    ELSE IF JsGe(address, \hE000) /\ JsLe(address, \hFDFF)
    THEN MemSet(write(m, address - \h2000, data), address, data)
    ELSE MemSet(m, address, data)

(***************************************************************************)
(* Gameboy: registers, flags and the stack.                                *)
(***************************************************************************)
ZERO_BIT == 7
SUBTRACT_BIT == 6
HALF_CARRY_BIT == 5
CARRY_BIT == 4

\* the Gameboy after its constructor, initialize() and loadProgram(cart)
LoadedGameboy(cart) ==
    [registers |-> [A |-> \h01, F |-> \hB0, B |-> \h00, C |-> \h13,
                    D |-> \h00, E |-> \hD8, H |-> \h01, L |-> \h4D,
                    PC |-> \h100, SP |-> \hFFFE],
     halted |-> FALSE,
     cpuStopped |-> FALSE,
     interruptsEnabled |-> TRUE,
     toDisableInterrupts |-> -1,
     toEnableInterrupts |-> -1,
     timerCounter |-> 1024,
     dividerCounter |-> 0,
     scanlineCounter |-> 456,
     mmu |-> LoadedMMU(cart)]

\* ths.mmu.write(address, data)
mmuWrite(g, address, data) == [g EXCEPT !.mmu = write(g.mmu, address, data)]

\* (ths.registers.F >> bit) & 1
FlagBit(g, bit) == BitAnd(Shr(g.registers.F, bit), 1)

setFlagBit(g, bit, isSet) ==
    IF isSet THEN [g EXCEPT !.registers.F = BitOr(@, Shl(1, bit))]
    ELSE [g EXCEPT !.registers.F = BitAnd(@, BitNot(Shl(1, bit)))]

\* pushToStack writing before it decrements
pushToStackPostDecrement(g, data) ==
    [mmuWrite(g, g.registers.SP, data) EXCEPT !.registers.SP = JsSub(@, 1)]

pushToStack(g, data) ==
    LET sp == JsSub(g.registers.SP, 1) IN
    mmuWrite([g EXCEPT !.registers.SP = sp], sp, data)

\* popFromStack: the byte read and the Gameboy after the call
popFromStack(g) ==
    [v |-> read(g.mmu, g.registers.SP),
     g |-> [g EXCEPT !.registers.SP = JsAdd(@, 1)]]

\* ths.mmu.read(++ths.registers.PC): the byte read and the Gameboy after it
fetchNext(g) ==
    LET g1 == [g EXCEPT !.registers.PC = JsAdd(@, 1)] IN
    [v |-> read(g1.mmu, g1.registers.PC), g |-> g1]

\* (hi << 8) ^ lo
Word(hi, lo) == BitXor(Shl(hi, 8), lo)

\* if (x > 127) x = -(128 - (x - 128))
SignedByte(x) == IF JsGt(x, 127) THEN JsNeg(JsSub(128, JsSub(x, 128))) ELSE x

(***************************************************************************)
(* Interrupt requests and dispatch.                                        *)
(***************************************************************************)
\* the mask the switch statements of requestInterrupt, checkInterruptBitSet
\* and runInterrupt give bit; bit 3 has no case
InterruptMask(bit) ==
    CASE bit = 0 -> 1 [] bit = 1 -> 2 [] bit = 2 -> 4 [] bit = 4 -> 16 [] OTHER -> 0

requestInterrupt(g, bit) ==
    mmuWrite(g, \hFF0F, BitOr(read(g.mmu, \hFF0F), InterruptMask(bit)))

checkInterruptBitSet(bit, val) ==
    IF bit \in {0, 1, 2, 4} THEN BitAnd(InterruptMask(bit), val) ELSE undefined

InterruptVector(bit) ==
    CASE bit = 0 -> \h40 [] bit = 1 -> \h48 [] bit = 2 -> \h50 [] bit = 4 -> \h60

\* runInterrupt pushing the low byte of PC first
runInterruptLowByteFirst(g, interrupt) ==
    Let([g EXCEPT !.halted = FALSE, !.interruptsEnabled = FALSE], LAMBDA g1 :
    Let(BitXor(read(g1.mmu, \hFF0F), InterruptMask(interrupt)), LAMBDA requestedValue :
    Let(mmuWrite(g1, \hFF0F, requestedValue), LAMBDA g2 :
    Let(pushToStack(g2, BitAnd(g2.registers.PC, \hFF)), LAMBDA g3 :
    Let(pushToStack(g3, Shr(g3.registers.PC, 8)), LAMBDA g4 :
        IF interrupt \in {0, 1, 2, 4}
        THEN [g4 EXCEPT !.registers.PC = InterruptVector(interrupt)]
        ELSE g4)))))

runInterrupt(g, interrupt) ==
    Let([g EXCEPT !.halted = FALSE, !.interruptsEnabled = FALSE], LAMBDA g1 :
    Let(BitXor(read(g1.mmu, \hFF0F), InterruptMask(interrupt)), LAMBDA requestedValue :
    Let(mmuWrite(g1, \hFF0F, requestedValue), LAMBDA g2 :
    Let(pushToStack(g2, Shr(g2.registers.PC, 8)), LAMBDA g3 :
    Let(pushToStack(g3, BitAnd(g3.registers.PC, \hFF)), LAMBDA g4 :
        IF interrupt \in {0, 1, 2, 4}
        THEN [g4 EXCEPT !.registers.PC = InterruptVector(interrupt)]
        ELSE g4)))))

\* the for loop of doInterrupts from bit i on; the two register values were
\* read before the loop
RECURSIVE doInterruptsFrom(_, _, _, _)
doInterruptsFrom(g, i, requestedInterrupts, enabledInterrupts) ==
    IF i >= 5 THEN g
    ELSE doInterruptsFrom(
             IF /\ Truthy(checkInterruptBitSet(i, requestedInterrupts))
                /\ Truthy(checkInterruptBitSet(i, enabledInterrupts))
             THEN runInterrupt(g, i) ELSE g,
             i + 1, requestedInterrupts, enabledInterrupts)

doInterrupts(g) ==
    IF g.interruptsEnabled /\ JsGt(read(g.mmu, \hFF0F), 0)
    THEN doInterruptsFrom(g, 0, read(g.mmu, \hFF0F), read(g.mmu, \hFFFF))
    ELSE g

(***************************************************************************)
(* Timer and divider.                                                      *)
(***************************************************************************)
isClockEnabled(g) == BitAnd(read(g.mmu, \hFF07), 4)

getClockFrequency(g) == BitAnd(read(g.mmu, \hFF07), 3)

setClockFrequency(g) ==
    Let(getClockFrequency(g), LAMBDA frequency :
        [g EXCEPT !.timerCounter =
            CASE frequency = 0 -> 1024
              [] frequency = 1 -> 16
              [] frequency = 2 -> 64
              [] frequency = 3 -> 256])

incrementDividerRegister(g, c) ==
    LET d == JsAdd(g.dividerCounter, c) IN
    IF JsGe(d, 255)
    THEN Let(read(g.mmu, \hFF04), LAMBDA currentDividerValue :
         [g EXCEPT !.dividerCounter = 0,
                   !.mmu = MemSet(@, \hFF04,
                                  IF JsEq(currentDividerValue, 255) THEN 0
                                  ELSE JsAdd(currentDividerValue, 1))])
    ELSE [g EXCEPT !.dividerCounter = d]

updateTimers(g, c) ==
    Let(incrementDividerRegister(setClockFrequency(g), c), LAMBDA g1 :
    IF Truthy(isClockEnabled(g1))
    THEN Let([g1 EXCEPT !.timerCounter = JsSub(@, c)], LAMBDA g2 :
         IF JsLe(g2.timerCounter, 0)
         THEN Let(setClockFrequency(g2), LAMBDA g3 :
              Let(read(g3.mmu, \hFF05), LAMBDA currentTimerValue :
                  IF JsEq(currentTimerValue, 255)
                  THEN requestInterrupt(mmuWrite(g3, \hFF05, read(g3.mmu, \hFF06)), 2)
                  ELSE mmuWrite(g3, \hFF05, JsAdd(currentTimerValue, 1))))
         ELSE g2)
    ELSE g1)

(***************************************************************************)
(* LCD: status register, scanline counter, scanline rendering.             *)
(***************************************************************************)
isLcdDisplayEnabled(g) == BitAnd(read(g.mmu, \hFF40), \h80)

\* the mode bits set without clearing the old ones
WithModeNotCleared(status, mode) == BitOr(status, mode)

\* (status & 11111100b) ^ mode
WithMode(status, mode) == BitXor(BitAnd(status, \hFC), mode)

\* the mode setLcdStatus selects from the scanline and the scanline counter
LcdMode(g, currentScanline) ==
    IF JsGe(currentScanline, 144) THEN 1
    ELSE IF JsGe(g.scanlineCounter, 456 - 80) /\ JsLe(g.scanlineCounter, 456)
    THEN 2
    ELSE IF /\ JsGe(g.scanlineCounter, 456 - 80 - 172)
            /\ JsLt(g.scanlineCounter, 456 - 80)
    THEN 3
    ELSE 0

\* the enable bits of modes 0 and 2 taken for each other
LcdModeInterruptEnabledSwapped(newMode, status) ==
    CASE newMode = 1 -> BitAnd(status, \h10)
      [] newMode = 2 -> BitAnd(status, \h08)
      [] newMode = 3 -> 0
      [] newMode = 0 -> BitAnd(status, \h20)

\* the STAT interrupt-enable bit of the mode
LcdModeInterruptEnabled(newMode, status) ==
    CASE newMode = 1 -> BitAnd(status, \h10)
      [] newMode = 2 -> BitAnd(status, \h20)
      [] newMode = 3 -> 0
      [] newMode = 0 -> BitAnd(status, \h08)

setLcdStatus(g) ==
    Let(read(g.mmu, \hFF41), LAMBDA currentLcdStatus :
    Let(read(g.mmu, \hFF44), LAMBDA currentScanline :
    IF ~Truthy(isLcdDisplayEnabled(g))
    THEN Let(mmuWrite(g, \hFF41, WithMode(currentLcdStatus, 1)), LAMBDA g1 :
         [g1 EXCEPT !.scanlineCounter = 456, !.mmu = MemSet(@, \hFF44, 0)])
    ELSE
    Let(BitAnd(currentLcdStatus, 3), LAMBDA mode :
    Let(LcdMode(g, currentScanline), LAMBDA newMode :
    Let(WithMode(currentLcdStatus, newMode), LAMBDA status1 :
    Let(LcdModeInterruptEnabled(newMode, status1), LAMBDA interruptEnabled :
    Let(IF interruptEnabled > 0 /\ newMode # 3 /\ newMode # mode
        THEN requestInterrupt(g, 1) ELSE g, LAMBDA g1 :
    Let(JsEq(currentScanline, read(g1.mmu, \hFF45)), LAMBDA coincidence :
    Let(IF coincidence THEN BitOr(status1, 4)
        ELSE BitAnd(status1, BitNot(Shl(1, 2))), LAMBDA status2 :
    Let(IF coincidence /\ Truthy(BitAnd(status2, \h40))
        THEN requestInterrupt(g1, 1) ELSE g1, LAMBDA g2 :
        mmuWrite(g2, \hFF41, status2)))))))))))

\* drawSprites reaches its inner loop for a sprite whose rows include the
\* current scanline
SpriteOnScanline(g, sprite) ==
    Let(JsSub(read(g.mmu, \hFE00 + sprite * 4), 16), LAMBDA yPosition :
    Let(IF Truthy(BitAnd(read(g.mmu, \hFF40), 4)) THEN 16 ELSE 8, LAMBDA spriteHeight :
    Let(read(g.mmu, \hFF44), LAMBDA currentScanline :
        /\ JsGe(currentScanline, yPosition)
        /\ JsLt(currentScanline, JsAdd(yPosition, spriteHeight)))))

\* drawToScreen changes only the framebuffer, which is not part of the
\* state; what is kept of it is whether it throws.  drawTiles does not;
\* the inner loop of drawSprites evaluates the undeclared names
\* `colourbit` or `getColour`, a ReferenceError.
drawToScreenThrows(g) ==
    /\ Truthy(BitAnd(read(g.mmu, \hFF40), 2))
    /\ \E sprite \in 0..39 : SpriteOnScanline(g, sprite)

\* updateGraphics letting the scanline run on after 153
updateGraphicsNoWrap(g, c) ==
    Let(setLcdStatus(g), LAMBDA g1 :
    IF ~Truthy(isLcdDisplayEnabled(g1)) THEN [g |-> g1, threw |-> FALSE, drawn |-> undefined]
    ELSE
    Let([g1 EXCEPT !.scanlineCounter = JsSub(@, c)], LAMBDA g2 :
    IF ~JsLe(g2.scanlineCounter, 0) THEN [g |-> g2, threw |-> FALSE, drawn |-> undefined]
    ELSE
    Let(JsAdd(read(g2.mmu, \hFF44), 1), LAMBDA scanline :
    Let([g2 EXCEPT !.mmu = MemSet(@, \hFF44, scanline),
                   !.scanlineCounter = 456], LAMBDA g3 :
        IF JsLe(scanline, 143)
        THEN [g |-> g3, threw |-> drawToScreenThrows(g3), drawn |-> scanline]
        ELSE IF JsEq(scanline, 144)
        THEN [g |-> requestInterrupt(g3, 0), threw |-> FALSE, drawn |-> undefined]
        ELSE [g |-> g3, threw |-> FALSE, drawn |-> undefined]))))

\* updateGraphics: the Gameboy after the call, whether it threw, and the
\* scanline drawToScreen was called for (undefined when it was not called)
updateGraphics(g, c) ==
    Let(setLcdStatus(g), LAMBDA g1 :
    IF ~Truthy(isLcdDisplayEnabled(g1)) THEN [g |-> g1, threw |-> FALSE, drawn |-> undefined]
    ELSE
    Let([g1 EXCEPT !.scanlineCounter = JsSub(@, c)], LAMBDA g2 :
    IF ~JsLe(g2.scanlineCounter, 0) THEN [g |-> g2, threw |-> FALSE, drawn |-> undefined]
    ELSE
    Let(JsAdd(read(g2.mmu, \hFF44), 1), LAMBDA scanline :
    Let([g2 EXCEPT !.mmu = MemSet(@, \hFF44, scanline),
                   !.scanlineCounter = 456], LAMBDA g3 :
        IF JsLe(scanline, 143)
        THEN [g |-> g3, threw |-> drawToScreenThrows(g3), drawn |-> scanline]
        ELSE IF JsEq(scanline, 144)
        THEN [g |-> requestInterrupt(g3, 0), threw |-> FALSE, drawn |-> undefined]
        ELSE IF JsGt(scanline, 153)
        THEN [g |-> [g3 EXCEPT !.mmu = MemSet(@, \hFF44, 0)], threw |-> FALSE, drawn |-> undefined]
        ELSE [g |-> g3, threw |-> FALSE, drawn |-> undefined]))))

(***************************************************************************)
(* ALU helpers.  Each gives the value returned and the Gameboy after the   *)
(* call (the flags are set on the way).                                    *)
(***************************************************************************)
inc8Bit(g, register) ==
    LET g1 == IF BitAnd(register, \hF) = \hF THEN setFlagBit(g, HALF_CARRY_BIT, TRUE)
              ELSE g
        curVal == JsAdd(register, 1)
        over == JsGt(curVal, \hFF)
        g2 == IF over THEN setFlagBit(g1, ZERO_BIT, TRUE) ELSE g1
    IN  [v |-> IF over THEN 0 ELSE curVal, g |-> setFlagBit(g2, SUBTRACT_BIT, FALSE)]

dec8Bit(g, register) ==
    LET g1 == IF BitAnd(register, \hF) = 0 THEN setFlagBit(g, HALF_CARRY_BIT, TRUE)
              ELSE g
        curVal == JsSub(register, 1)
        g2 == IF JsEq(curVal, 0) THEN setFlagBit(g1, ZERO_BIT, TRUE) ELSE g1
    IN  [v |-> IF JsLt(curVal, 0) THEN \hFF ELSE curVal,
         g |-> setFlagBit(g2, SUBTRACT_BIT, TRUE)]

add8Bit(g, destination, value, withCarry) ==
    LET value1 == IF withCarry /\ FlagBit(g, CARRY_BIT) = 1 THEN JsAdd(value, 1)
                  ELSE value
        result == JsAdd(destination, value1)
        isHalfCarry == BitAnd(destination, \hF) + BitAnd(value1, \hF)
        g1 == IF isHalfCarry > \hF THEN setFlagBit(g, HALF_CARRY_BIT, TRUE) ELSE g
        over == JsGt(result, \hFF)
        g2 == IF over THEN setFlagBit(g1, CARRY_BIT, TRUE) ELSE g1
        result1 == IF over THEN JsSub(result, \hFF) ELSE result
        g3 == IF JsEq(result1, 0) THEN setFlagBit(g2, ZERO_BIT, TRUE) ELSE g2
    IN  [v |-> result1, g |-> setFlagBit(g3, SUBTRACT_BIT, FALSE)]

sub8Bit(g, destination, value, withCarry) ==
    LET value1 == IF withCarry /\ FlagBit(g, CARRY_BIT) = 1 THEN JsAdd(value, 1)
                  ELSE value
        result == JsSub(destination, value1)
        isHalfCarry == BitAnd(destination, \hF) - BitAnd(value1, \hF)
        g1 == IF isHalfCarry < 0 THEN setFlagBit(g, HALF_CARRY_BIT, TRUE) ELSE g
        under == JsLt(result, 0)
        g2 == IF under THEN setFlagBit(g1, CARRY_BIT, TRUE) ELSE g1
        result1 == IF under THEN JsAdd(result, \hFF) ELSE result
        g3 == IF JsEq(result1, 0) THEN setFlagBit(g2, ZERO_BIT, TRUE) ELSE g2
    IN  [v |-> result1, g |-> setFlagBit(g3, SUBTRACT_BIT, TRUE)]

xorRegisters(g, registerOne, registerTwo) ==
    LET res == BitXor(registerOne, registerTwo)
        g1 == IF res = 0 THEN setFlagBit(g, ZERO_BIT, TRUE) ELSE g
    IN  [v |-> res,
         g |-> setFlagBit(setFlagBit(setFlagBit(g1, HALF_CARRY_BIT, FALSE),
                                     CARRY_BIT, FALSE), SUBTRACT_BIT, FALSE)]

\* case 0x27, DAA
decimalAdjust(g) ==
    Let(g.registers.A, LAMBDA A0 :
    Let(g.registers.F, LAMBDA F0 :
    Let(FlagBit(g, SUBTRACT_BIT) = 1, LAMBDA subtract :
    Let(IF subtract
        THEN JsGt(BitAnd(A0, \h0F), \h09) \/ Truthy(BitAnd(F0, \h20))
        ELSE \* A & 0x0F > 9 parses as A & (0x0F > 9), that is A & 1
             Truthy(BitAnd(A0, 1)) \/ Truthy(BitAnd(F0, \h20)), LAMBDA first :
    Let(IF ~first THEN A0
        ELSE IF subtract THEN JsSub(A0, \h06) ELSE JsAdd(A0, \h06), LAMBDA A1 :
    Let(IF ~first THEN F0
        ELSE IF BitAnd(A1, \hF) = (IF subtract THEN \hF0 ELSE 0)
        THEN BitOr(F0, \h10)
        ELSE BitAnd(F0, BitNot(\h10)), LAMBDA F1 :
    Let(JsGt(BitAnd(A1, \hF0), \h90) \/ Truthy(BitAnd(F1, \h10)), LAMBDA second :
    Let(IF ~second THEN A1
        ELSE IF subtract THEN JsSub(A1, \h60) ELSE JsAdd(A1, \h60), LAMBDA A2 :
    Let(IF JsEq(A2, 0) THEN BitOr(F1, \h80) ELSE BitAnd(F1, BitNot(\h80)), LAMBDA F2 :
        [g EXCEPT !.registers.A = A2, !.registers.F = F2])))))))))

\* cases 0x09, 0x19: ADD HL, rr with rr the pair (hi, lo)
addToHL(g, hi, lo) ==
    LET rrVal == Word(hi, lo)
        HLVal == Word(g.registers.H, g.registers.L)
        newVal == rrVal + HLVal
        halfCarry == BitAnd(BitAnd(HLVal, \hFF00), \hF) + BitAnd(Shr(rrVal, 8), \hF)
        g1 == setFlagBit(g, SUBTRACT_BIT, FALSE)
        g2 == setFlagBit(g1, HALF_CARRY_BIT, halfCarry # 0)
        g3 == setFlagBit(g2, CARRY_BIT, newVal > \hFFFF)
        newVal1 == IF newVal > \hFFFF THEN newVal - \hFFFF ELSE newVal
    IN  [g3 EXCEPT !.registers.H = Shr(newVal1, 8),
                   !.registers.L = BitAnd(newVal1, \hFF)]

\* case 0xE8: ADD SP, r8
addToSP(g) ==
    Let(fetchNext(g), LAMBDA f :
    Let(SignedByte(f.v), LAMBDA toAdd :
    Let(JsAdd(f.g.registers.SP, toAdd), LAMBDA newVal :
    Let(BitAnd(BitAnd(toAdd, \hFF00), \hF) + BitAnd(Shr(toAdd, 8), \hF),
        LAMBDA halfCarry :
    Let(setFlagBit(f.g, SUBTRACT_BIT, FALSE), LAMBDA g1 :
    Let(setFlagBit(g1, ZERO_BIT, FALSE), LAMBDA g2 :
    Let(setFlagBit(g2, HALF_CARRY_BIT, halfCarry # 0), LAMBDA g3 :
    Let(setFlagBit(g3, CARRY_BIT, JsGt(newVal, \hFFFF)), LAMBDA g4 :
        [g4 EXCEPT !.registers.SP =
             IF JsGt(newVal, \hFFFF) THEN JsSub(newVal, \hFFFF) ELSE newVal]))))))))

(***************************************************************************)
(* executeOperation, for the opcodes the model follows.  The result is the *)
(* Gameboy after the case, the T-cycle count returned, and whether the     *)
(* case threw instead of returning.                                        *)
(***************************************************************************)
Returns(g, c) == [g |-> g, cycles |-> c, threw |-> FALSE]

Throws(g) == [g |-> g, cycles |-> 0, threw |-> TRUE]

\* LD r, d8
loadImmediate(g, r) ==
    Let(fetchNext(g), LAMBDA f : [f.g EXCEPT !.registers[r] = f.v])

\* LD BC, d16: the first operand byte goes to the first register named
loadImmediatePair(g, r1, r2) ==
    Let(fetchNext(g), LAMBDA f1 :
    Let(fetchNext(f1.g), LAMBDA f2 :
        [f2.g EXCEPT !.registers[r1] = f1.v, !.registers[r2] = f2.v]))

\* PUSH rr
pushPair(g, hi, lo) ==
    Let(pushToStack(g, g.registers[hi]), LAMBDA g1 :
        pushToStack(g1, g1.registers[lo]))

\* POP rr
popPair(g, hi, lo) ==
    Let(popFromStack(g), LAMBDA p1 :
    Let(popFromStack(p1.g), LAMBDA p2 :
        [p2.g EXCEPT !.registers[lo] = p1.v, !.registers[hi] = p2.v]))

\* the two operand bytes of JP / CALL / LD (a16): the address and the
\* Gameboy after both reads
fetchAddress(g) ==
    Let(fetchNext(g), LAMBDA f1 :
    Let(fetchNext(f1.g), LAMBDA f2 :
        [v |-> Word(f1.v, f2.v), g |-> f2.g]))

\* case 0x18: JR r8
jumpRelative(g) ==
    Let(fetchNext(g), LAMBDA f :
        [f.g EXCEPT !.registers.PC = JsAdd(@, JsSub(SignedByte(f.v), 1))])

\* case 0xC3: JP a16
jump(g) ==
    Let(fetchAddress(g), LAMBDA a : [a.g EXCEPT !.registers.PC = a.v - 1])

\* case 0xCD: CALL a16
call(g) ==
    Let(fetchAddress(g), LAMBDA a :
    Let(pushToStack(a.g, Shr(a.g.registers.PC, 8)), LAMBDA g1 :
    Let(pushToStack(g1, BitAnd(g1.registers.PC, \hFF)), LAMBDA g2 :
        [g2 EXCEPT !.registers.PC = a.v - 1])))

\* cases 0xC9, 0xD9: RET, RETI
return(g) ==
    Let(popFromStack(g), LAMBDA p1 :
    Let(popFromStack(p1.g), LAMBDA p2 :
        [p2.g EXCEPT !.registers.PC = Word(p2.v, p1.v) - 1]))

\* case 0x20: JR NZ, r8; the operand is read only when the jump is taken
jumpRelativeNotZero(g) ==
    IF FlagBit(g, ZERO_BIT) = 0 THEN jumpRelative(g) ELSE g

\* case 0xC0: RET NZ; both bytes are popped before the flag is looked at
returnNotZero(g) ==
    Let(FlagBit(g, ZERO_BIT), LAMBDA zeroBit :
    Let(popFromStack(g), LAMBDA p1 :
    Let(popFromStack(p1.g), LAMBDA p2 :
        IF zeroBit = 0
        THEN [p2.g EXCEPT !.registers.PC = Word(p2.v, p1.v) - 1]
        ELSE p2.g)))

\* case 0xC2: JP NZ, a16
jumpNotZero(g) ==
    Let(fetchAddress(g), LAMBDA a :
        IF FlagBit(a.g, ZERO_BIT) = 0
        THEN [a.g EXCEPT !.registers.PC = a.v - 1]
        ELSE a.g)

\* case 0xC4: CALL NZ, a16
callNotZero(g) ==
    Let(fetchAddress(g), LAMBDA a :
        IF FlagBit(a.g, ZERO_BIT) = 0
        THEN Let(pushToStack(a.g, Shr(a.g.registers.PC, 8)), LAMBDA g1 :
             Let(pushToStack(g1, BitAnd(g1.registers.PC, \hFF)), LAMBDA g2 :
                 [g2 EXCEPT !.registers.PC = a.v - 1]))
        ELSE a.g)

\* cases 0xC7 .. 0xFF: RST t
restart(g, t) ==
    Let(pushToStack(g, Shr(g.registers.PC, 8)), LAMBDA g1 :
    Let(pushToStack(g1, BitAnd(g1.registers.PC, \hFF)), LAMBDA g2 :
        [g2 EXCEPT !.registers.PC = t - 1]))

\* A <- helper(A, value)
intoA(r) == [r.g EXCEPT !.registers.A = r.v]

\* main opcodes that have no case in the switch
UndefinedOpcodes ==
    {\hD3, \hDB, \hDD, \hE3, \hE4, \hEB, \hEC, \hED, \hF4, \hFC, \hFD}

\* main opcodes whose case the model follows
ModelledOpcodes ==
    {\h00, \h01, \h02, \h06, \h09, \h0A, \h0E, \h10, \h12, \h16, \h18, \h19,
     \h1E, \h20, \h26, \h27, \h31, \h3C, \h3D, \h3E, \h76, \h7D, \h80, \h88, \h90,
     \h98,
     \hAF, \hC0, \hC1, \hC2, \hC3, \hC4, \hC5, \hC6, \hC7, \hC8, \hC9, \hCD, \hCE, \hD1, \hD5,
     \hD6, \hD9, \hDE, \hE0, \hE1, \hE5, \hE8, \hF0, \hF1, \hF3, \hF5, \hF9, \hFB}

executeOperation(g, opcode) ==
    LET R == g.registers IN
    CASE opcode = \h00 -> Returns(g, 4)
      [] opcode = \h01 -> Returns(loadImmediatePair(g, "B", "C"), 12)
      [] opcode = \h02 -> Returns(mmuWrite(g, Word(R.B, R.C), R.A), 8)
      [] opcode = \h06 -> Returns(loadImmediate(g, "B"), 8)
      [] opcode = \h09 -> Returns(addToHL(g, R.B, R.C), 8)
      [] opcode = \h0A -> Returns([g EXCEPT !.registers.A = read(g.mmu, Word(R.B, R.C))], 8)
      [] opcode = \h0E -> Returns(loadImmediate(g, "C"), 8)
      [] opcode = \h10 -> Returns([g EXCEPT !.registers.PC = JsAdd(@, 1)], 4)
      [] opcode = \h12 -> Returns(mmuWrite(g, Word(R.D, R.E), R.A), 8)
      [] opcode = \h16 -> Returns(loadImmediate(g, "D"), 8)
      [] opcode = \h18 -> Returns(jumpRelative(g), 12)
      [] opcode = \h19 -> Returns(addToHL(g, R.D, R.E), 8)
      [] opcode = \h1E -> Returns(loadImmediate(g, "E"), 8)
      [] opcode = \h20 -> Returns(jumpRelativeNotZero(g), 8)
      [] opcode = \h26 -> Returns(loadImmediate(g, "H"), 8)
      [] opcode = \h27 -> Returns(decimalAdjust(g), 4)
      [] opcode = \h31 ->
            Let(fetchAddress(g), LAMBDA a :
            Returns([a.g EXCEPT !.registers.SP = a.v], 12))
      [] opcode = \h3C -> Returns(intoA(inc8Bit(g, R.A)), 4)
      [] opcode = \h3D -> Returns(intoA(dec8Bit(g, R.A)), 4)
      [] opcode = \h3E -> Returns(loadImmediate(g, "A"), 8)
      [] opcode = \h76 -> Returns([g EXCEPT !.halted = TRUE], 4)
      \* LD A,L evaluates `ths.regsiters.L`; ths has no property regsiters
      [] opcode = \h7D -> Throws(g)
      [] opcode = \h80 -> Returns(intoA(add8Bit(g, R.A, R.B, FALSE)), 4)
      [] opcode = \h88 -> Returns(intoA(add8Bit(g, R.A, R.B, TRUE)), 4)
      [] opcode = \h90 -> Returns(intoA(sub8Bit(g, R.A, R.B, FALSE)), 4)
      [] opcode = \h98 -> Returns(intoA(sub8Bit(g, R.A, R.B, TRUE)), 4)
      [] opcode = \hAF -> Returns(intoA(xorRegisters(g, R.A, R.A)), 4)
      [] opcode = \hC1 -> Returns(popPair(g, "B", "C"), 12)
      [] opcode = \hC0 -> Returns(returnNotZero(g), 8)
      [] opcode = \hC2 -> Returns(jumpNotZero(g), 12)
      [] opcode = \hC3 -> Returns(jump(g), 12)
      [] opcode = \hC4 -> Returns(callNotZero(g), 12)
      [] opcode = \hC5 -> Returns(pushPair(g, "B", "C"), 16)
      [] opcode = \hC6 ->
            Let(fetchNext(g), LAMBDA f :
            Returns(intoA(add8Bit(f.g, f.g.registers.A, f.v, FALSE)), 8))
      [] opcode = \hC7 -> Returns(restart(g, 0), 32)
      \* RET Z evaluates `the.ZERO_BIT`; `the` is not declared
      [] opcode = \hC8 -> Throws(g)
      [] opcode = \hC9 -> Returns(return(g), 8)
      [] opcode = \hCD -> Returns(call(g), 12)
      [] opcode = \hCE ->
            Let(fetchNext(g), LAMBDA f :
            Returns(intoA(add8Bit(f.g, f.g.registers.A, f.v, TRUE)), 8))
      [] opcode = \hD1 -> Returns(popPair(g, "D", "E"), 12)
      [] opcode = \hD5 -> Returns(pushPair(g, "D", "E"), 16)
      [] opcode = \hD6 ->
            Let(fetchNext(g), LAMBDA f :
            Returns(intoA(sub8Bit(f.g, f.g.registers.A, f.v, FALSE)), 8))
      [] opcode = \hD9 -> Returns([return(g) EXCEPT !.interruptsEnabled = TRUE], 8)
      [] opcode = \hDE ->
            Let(fetchNext(g), LAMBDA f :
            Returns(intoA(sub8Bit(f.g, f.g.registers.A, f.v, TRUE)), 8))
      [] opcode = \hE0 ->
            Let(fetchNext(g), LAMBDA f :
            Returns(mmuWrite(f.g, JsAdd(\hFF00, f.v), f.g.registers.A), 12))
      [] opcode = \hE1 -> Returns(popPair(g, "H", "L"), 12)
      [] opcode = \hE5 -> Returns(pushPair(g, "H", "L"), 16)
      [] opcode = \hE8 -> Returns(addToSP(g), 16)
      [] opcode = \hF0 ->
            Let(fetchNext(g), LAMBDA f :
            Returns([f.g EXCEPT !.registers.A = read(f.g.mmu, JsAdd(\hFF00, f.v))], 12))
      [] opcode = \hF1 -> Returns(popPair(g, "A", "F"), 12)
      [] opcode = \hF3 -> Returns([g EXCEPT !.toDisableInterrupts = @ + 1], 4)
      [] opcode = \hF5 -> Returns(pushPair(g, "A", "F"), 16)
      [] opcode = \hF9 -> Returns([g EXCEPT !.registers.SP = Word(R.H, R.L)], 8)
      [] opcode = \hFB -> Returns([g EXCEPT !.toEnableInterrupts = @ + 1], 4)
      \* default: the opcode has no case (or is no number at all)
      [] OTHER -> Returns(g, 0)

\* the deferred DI / EI counters at the end of executeOpcode
deferredInterruptSwitch(g) ==
    LET g1 == IF g.toDisableInterrupts >= 0
              THEN IF g.toDisableInterrupts + 1 = 2
                   THEN [g EXCEPT !.interruptsEnabled = FALSE,
                                  !.toDisableInterrupts = -1]
                   ELSE [g EXCEPT !.toDisableInterrupts = @ + 1]
              ELSE g
    IN  IF g1.toEnableInterrupts >= 0
        THEN IF g1.toEnableInterrupts + 1 = 2
             THEN [g1 EXCEPT !.interruptsEnabled = TRUE,
                             !.toEnableInterrupts = -1]
             ELSE [g1 EXCEPT !.toEnableInterrupts = @ + 1]
        ELSE g1

\* executeOpcode: one CPU step
executeOpcode(g) ==
    IF ~g.halted
    THEN Let(executeOperation(g, read(g.mmu, g.registers.PC)), LAMBDA r :
         IF r.threw THEN r
         ELSE Returns(deferredInterruptSwitch(
                          [r.g EXCEPT !.registers.PC = JsAdd(@, 1)]), r.cycles))
    ELSE Returns(deferredInterruptSwitch(g), 4)

(***************************************************************************)
(* Cartridge images the specifications load.                               *)
(***************************************************************************)
\* a 32 KiB image holding the byte sequence `code` from 0x0100 on
Program(code) ==
    [bytes |-> [a \in {\h100 + i - 1 : i \in {j \in 1..Len(code) : code[j] # 0}}
                   |-> code[a - \h100 + 1]],
     size |-> \h8000]

\* the empty cartridge: every byte 0x00
NopCart == Program(<<>>)

\* LD A,0x01; LDH (0xFF),A: enables the V-Blank interrupt, then runs NOPs
VBlankCart == Program(<<\h3E, \h01, \hE0, \hFF>>)

\* PUSH BC; POP BC; JP 0x0100 (the code reads the operand high byte first):
\* a loop of 16 + 12 + 12 T-cycles
StackLoopCart == Program(<<\hC5, \hC1, \hC3, \h01, \h00>>)

\* the timer scenario: TMA = 0xAA, TIMA = 0xFF, IE = 0x04, TAC = 0x05 (IME is
\* set from reset), then NOPs
TimerCart ==
    Program(<<\h3E, \hAA, \hE0, \h06, \h3E, \hFF, \hE0, \h05,
              \h3E, \h04, \hE0, \hFF, \h3E, \h05, \hE0, \h07>>)

\* CALL with operand bytes 34 12 at 0x0100, RET at 0x1234
CallRetCart ==
    [bytes |-> (\h100 :> \hCD @@ \h101 :> \h34 @@ \h102 :> \h12 @@ \h1234 :> \hC9),
     size |-> \h8000]

\* an MBC1 cartridge (header byte 0x0147 = 0x01) of eight banks; the program
\* is LD B,0x21; LD C,0x00; LD A,0x05; LD (BC),A; LD A,0x00; LD (BC),A
Mbc1Cart ==
    [bytes |-> (\h100 :> \h06 @@ \h101 :> \h21 @@ \h102 :> \h0E
                @@ \h104 :> \h3E @@ \h105 :> \h05 @@ \h106 :> \h02
                @@ \h107 :> \h3E @@ \h109 :> \h02
                @@ \h147 :> \h01 @@ \h4000 :> \h11 @@ \h14000 :> \h55),
     size |-> \h20000]

\* JP a16 with operand bytes 50 01
JumpCart == Program(<<\hC3, \h50, \h01>>)

\* JR r8 with r8 = 0x00
JrCart == Program(<<\h18, \h00>>)

\* LD A,0xFF; LD B,0x01; ADD A,B
AddCart == Program(<<\h3E, \hFF, \h06, \h01, \h80>>)

\* LD A,0x00; LD B,0x01; SUB B
SubCart == Program(<<\h3E, \h00, \h06, \h01, \h90>>)

\* RET Z
RetZCart == Program(<<\hC8>>)

\* LD A,L
LdALCart == Program(<<\h7D>>)

\* LD A,0x09; ADD A,0x01; DAA
DaaCart == Program(<<\h3E, \h09, \hC6, \h01, \h27>>)

\* LD A,0x05; LDH (0xFF),A; LDH (0x0F),A: V-Blank and timer enabled and
\* requested at once, IME set from reset
IntCart == Program(<<\h3E, \h05, \hE0, \hFF, \hE0, \h0F>>)

\* DI; LD A,0x04; LDH (0xFF),A; LDH (0x0F),A; HALT: the timer interrupt is
\* enabled and requested with IME clear, then the CPU halts
HaltCart == Program(<<\hF3, \h3E, \h04, \hE0, \hFF, \hE0, \h0F, \h76>>)

\* DI; DI
DiDiCart == Program(<<\hF3, \hF3>>)
\* STOP and its padding byte, then NOPs
StopCart == Program(<<\h10, \h00>>)
\* JR NZ, RET NZ, JP NZ, CALL NZ with Z set from reset: the condition is false
JrNzCart == Program(<<\h20, \h05>>)
RetNzCart == Program(<<\hC0>>)
JpNzCart == Program(<<\hC2, \h12, \h34>>)
CallNzCart == Program(<<\hC4, \h12, \h34>>)

ScenarioCarts ==
    {TimerCart, CallRetCart, Mbc1Cart, JumpCart, JrCart, AddCart, SubCart,
     RetZCart, LdALCart, DaaCart, IntCart, HaltCart, DiDiCart, StopCart,
            JrNzCart, RetNzCart, JpNzCart, CallNzCart}

\* the instructions the short programs are made of
Prefixes ==
    { <<\h00>>,
      <<\h31, \hD0, \hD0>>, <<\h31, \h00, \h00>>, <<\h31, \h90, \h90>>,
      <<\h31, \hFF, \hFF>>, <<\h31, \hE0, \hE0>>, <<\h31, \hA0, \hA0>>,
      <<\h3E, \hFF>>, <<\h3E, \h0F>> }

Instructions ==
    { <<\h00>>, <<\hCE, \hFF>>, <<\hC6, \h01>>, <<\hD6, \h01>>, <<\hDE, \hFF>>,
      <<\h27>>, <<\h3C>>, <<\h3D>>, <<\hAF>>,
      <<\hC5>>, <<\hD5>>, <<\hE5>>, <<\hF5>>,
      <<\hC1>>, <<\hD1>>, <<\hE1>>, <<\hF1>>,
      <<\hE8, \h01>>, <<\hE8, \hFF>>, <<\hF9>>, <<\h09>>, <<\h19>>,
      <<\hC3, \h01, \h00>>, <<\h18, \hFE>>, <<\hCD, \h01, \h50>>, <<\hC9>>,
      <<\hC7>> }

\* every program of one prefix and two further instructions
ShortPrograms ==
    { Program(p \o i \o j) : p \in Prefixes, i \in Instructions, j \in Instructions }

\* NOPs up to 0x0300, where DIV and LY have advanced, then LDH (0x04),A;
\* LDH (0x44),A with A = 0x01 from reset; NOPs up to 0x0500, then LD A,0x5A
\* and the same two stores
IoCart ==
    [bytes |-> (\h300 :> \hE0 @@ \h301 :> \h04 @@ \h302 :> \hE0 @@ \h303 :> \h44
                @@ \h500 :> \h3E @@ \h501 :> \h5A
                @@ \h502 :> \hE0 @@ \h503 :> \h04 @@ \h504 :> \hE0 @@ \h505 :> \h44),
     size |-> \h8000]

\* LD A,0x01; LDH (0xFF),A; HALT: waits halted for the V-Blank interrupt
HaltVBlankCart == Program(<<\h3E, \h01, \hE0, \hFF, \h76>>)

\* the frame-level specification runs these
FrameCarts == {NopCart, VBlankCart, StackLoopCart, IoCart, HaltVBlankCart}

(***************************************************************************)
(* The frame driver (emulationLoop) and the four calls of one emulation    *)
(* step.  phase is the driver's position: "idle" between two invocations,  *)
(* "loop" at the while condition, then the call that comes next; "crashed" *)
(* after an exception left the driver (it is not rescheduled).             *)
(***************************************************************************)
MAXCYCLES == 69905

\* the loop body with interrupt dispatch moved before the timer and the PPU
NextPhaseDispatchFirst(p) ==
    CASE p = "loop" -> "interrupts"
      [] p = "interrupts" -> "timers"
      [] p = "timers" -> "graphics"
      [] p = "graphics" -> "loop"

\* the statement order of the loop body
NextPhase(p) ==
    CASE p = "loop" -> "timers"
      [] p = "timers" -> "graphics"
      [] p = "graphics" -> "interrupts"
      [] p = "interrupts" -> "loop"

\* the last instructions executed, newest first (at most two are kept)
Record(h, entry) == IF Len(h) = 0 THEN <<entry>> ELSE <<entry, h[1]>>

InitWith(carts) ==
    /\ \E cart \in carts : gameboy = LoadedGameboy(cart)
    /\ phase = "idle"
    /\ cyclesExecuted = 0
    /\ cycles = 0
    /\ frames = 0
    /\ steps = 0
    /\ history = <<>>

\* the timeout fires: emulationLoop starts with cyclesExecuted = 0
EmulationLoopStart ==
    /\ phase = "idle"
    /\ frames < MaxFrames
    /\ phase' = "loop"
    /\ cyclesExecuted' = 0
    /\ frames' = frames + 1
    /\ UNCHANGED <<gameboy, cycles, steps, history>>

\* the opcode the next executeOpcode dispatches on
NextOpcode(g) == read(g.mmu, g.registers.PC)

\* the while condition holds and cpuStopped is clear: executeOpcode()
ExecuteOpcode ==
    /\ phase = "loop"
    /\ JsLt(cyclesExecuted, MAXCYCLES)
    /\ ~gameboy.cpuStopped
    /\ gameboy.halted \/ ~IsNum(NextOpcode(gameboy))
         \/ NextOpcode(gameboy) \in ModelledOpcodes \cup UndefinedOpcodes
    /\ \E r \in {executeOpcode(gameboy)} :
          IF r.threw
          THEN /\ phase' = "crashed"
               /\ UNCHANGED <<gameboy, cyclesExecuted, cycles>>
          ELSE /\ phase' = NextPhase(phase)
               /\ gameboy' = r.g
               /\ cycles' = r.cycles
               /\ cyclesExecuted' = JsAdd(cyclesExecuted, r.cycles)
    /\ steps' = steps + 1
    /\ history' = Record(history,
                         [kind |-> "instruction",
                          opcode |-> IF gameboy.halted THEN undefined
                                     ELSE NextOpcode(gameboy),
                          before |-> gameboy])
    /\ UNCHANGED frames

UpdateTimers ==
    /\ phase = "timers"
    /\ gameboy' = updateTimers(gameboy, cycles)
    /\ phase' = NextPhase(phase)
    /\ UNCHANGED <<cyclesExecuted, cycles, frames, steps, history>>

UpdateGraphics ==
    /\ phase = "graphics"
    /\ \E r \in {updateGraphics(gameboy, cycles)} :
          /\ gameboy' = r.g
          /\ phase' = IF r.threw THEN "crashed" ELSE NextPhase(phase)
    /\ UNCHANGED <<cyclesExecuted, cycles, frames, steps, history>>

DoInterrupts ==
    /\ phase = "interrupts"
    /\ gameboy' = doInterrupts(gameboy)
    /\ phase' = NextPhase(phase)
    /\ UNCHANGED <<cyclesExecuted, cycles, frames, steps, history>>

\* the while loop ends; the frame is drawn and the next run is scheduled
EmulationLoopEnd ==
    /\ phase = "loop"
    /\ ~JsLt(cyclesExecuted, MAXCYCLES) \/ gameboy.cpuStopped
    /\ phase' = "idle"
    /\ UNCHANGED <<gameboy, cyclesExecuted, cycles, frames, steps, history>>

Init == InitWith(FrameCarts)

Next ==
    \/ EmulationLoopStart
    \/ ExecuteOpcode
    \/ UpdateTimers
    \/ UpdateGraphics
    \/ DoInterrupts
    \/ EmulationLoopEnd

Spec == Init /\ [][Next]_vars

(***************************************************************************)
(* The first emulation steps of a frame, for short programs and for the    *)
(* scenario cartridges.                                                    *)
(***************************************************************************)
InitCpu == InitWith(ShortPrograms)

Step == steps < MaxSteps /\ ExecuteOpcode

NextCpu ==
    \/ EmulationLoopStart
    \/ Step
    \/ UpdateTimers
    \/ UpdateGraphics
    \/ DoInterrupts

SpecCpu == InitCpu /\ [][NextCpu]_vars

InitScenario == InitWith(ScenarioCarts)

ScenarioStep == steps < MaxScenarioSteps /\ ExecuteOpcode

NextScenario ==
    \/ EmulationLoopStart
    \/ ScenarioStep
    \/ UpdateTimers
    \/ UpdateGraphics
    \/ DoInterrupts

SpecScenario == InitScenario /\ [][NextScenario]_vars

(***************************************************************************)
(* Properties of the frame driver.                                         *)
(***************************************************************************)
IF_ == read(gameboy.mmu, \hFF0F)
IE_ == read(gameboy.mmu, \hFFFF)
LY == read(gameboy.mmu, \hFF44)
Vectors == {\h40, \h48, \h50, \h60}

\* an interrupt is requested and enabled, and the master enable is set
Pending == /\ gameboy.interruptsEnabled
           /\ BitAnd(BitAnd(IF_, IE_), \h17) # 0

\* C1: within a step the instruction runs first, then the timer is advanced
\* by the instruction's cycle count, then the PPU by the same count, then
\* interrupt dispatch; the timer and the PPU leave the CPU registers alone,
\* and a request they raised redirects PC only at dispatch, that is for the
\* fetch of the following step.
C1_StepOrder ==
    [][ /\ phase = "loop" =>
             /\ phase' \in {"timers", "idle", "crashed"}
             /\ phase' = "timers" =>
                    /\ cycles' = executeOpcode(gameboy).cycles
                    /\ gameboy' = executeOpcode(gameboy).g
        /\ phase = "timers" =>
             /\ phase' = "graphics"
             /\ cycles' = cycles
             /\ gameboy' = updateTimers(gameboy, cycles)
             /\ gameboy'.registers = gameboy.registers
        /\ phase = "graphics" =>
             /\ phase' \in {"interrupts", "crashed"}
             /\ cycles' = cycles
             /\ gameboy' = updateGraphics(gameboy, cycles).g
             /\ gameboy'.registers = gameboy.registers
        /\ phase = "interrupts" =>
             /\ phase' = "loop"
             /\ Pending => gameboy'.registers.PC \in Vectors
             /\ ~Pending => gameboy'.registers = gameboy.registers
      ]_vars

\* the V-Blank request the PPU raised in a step was dispatched at the end of
\* that step: the next fetch is from 0x0040
C1_Witness ==
    /\ phase = "loop"
    /\ Len(history) > 0
    /\ history[1].before.registers.PC \notin Vectors
    /\ gameboy.registers.PC = \h40
    /\ gameboy.registers.SP = \hFFFC
    /\ ~gameboy.interruptsEnabled
    /\ LY = 144

\* C3: in the first frame after reset, on the step at which the elapsed
\* T-cycles reach 144 * 456, LY is 144 and IF bit 0 is set once the PPU has
\* been advanced.
C3_VBlankAfter144Lines ==
    ( /\ frames = 1
      /\ phase = "interrupts"
      /\ cyclesExecuted >= 144 * 456
      /\ cyclesExecuted - cycles < 144 * 456 )
    => /\ LY = 144
       /\ BitAnd(IF_, 1) = 1

(***************************************************************************)
(* Scenarios.                                                              *)
(***************************************************************************)
Cart == gameboy.mmu.cartridgeData
TIMA == read(gameboy.mmu, \hFF05)

\* C2: with TAC = 0x05, TIMA = 0xFF, TMA = 0xAA, IE bit 2 and IME set, the
\* timer has overflowed once 16 T-cycles (four NOPs) have passed: TIMA was
\* reloaded from TMA and the timer interrupt was requested, and by the end of
\* the following step it has been dispatched (IF bit 2 clear, SP two lower,
\* PC in the handler at 0x0050).  The setup of TimerCart takes eight steps.
C2_TimerInterrupt ==
    Cart = TimerCart =>
        /\ (steps = 12 /\ phase = "graphics") =>
               /\ TIMA = \hAA
               /\ BitAnd(IF_, 4) = 4 \/ gameboy.registers.SP = \hFFFC
        /\ (steps = 13 /\ phase = "loop") =>
               /\ BitAnd(IF_, 4) = 0
               /\ gameboy.registers.SP = \hFFFC
               /\ gameboy.registers.PC \in \h50 .. \h54

\* C4: CD 34 12 at 0x0100 calls 0x1234 with SP = 0xFFFC and the return
\* address 0x0103 on the stack, low byte first; the RET at 0x1234 returns to
\* 0x0103 with SP = 0xFFFE.
C4_CallRet ==
    Cart = CallRetCart =>
        /\ (steps = 1 /\ phase = "timers") =>
               /\ gameboy.registers.PC = \h1234
               /\ gameboy.registers.SP = \hFFFC
               /\ read(gameboy.mmu, \hFFFC) = \h03
               /\ read(gameboy.mmu, \hFFFD) = \h01
        /\ (steps = 2 /\ phase = "timers") =>
               /\ gameboy.registers.PC = \h103
               /\ gameboy.registers.SP = \hFFFE

\* C5: on a loaded cartridge whose header byte 0x0147 is 0x01, the write of
\* 0x05 to 0x2100 (the fourth instruction of Mbc1Cart) selects ROM bank 5,
\* so that 0x4000 reads cartridge[5 * 0x4000]; the write of 0x00 (the sixth
\* instruction) selects bank 1.
C5_Mbc1BankSwitch ==
    Cart = Mbc1Cart =>
        /\ (steps = 4 /\ phase = "timers") =>
               /\ gameboy.mmu.currentRomBank = 5
               /\ read(gameboy.mmu, \h4000) = CartByte(Cart, 5 * \h4000)
        /\ (steps = 6 /\ phase = "timers") =>
               gameboy.mmu.currentRomBank = 1

(***************************************************************************)
(* Register ranges.                                                        *)
(***************************************************************************)
\* C7: after every emulation step PC and SP are within 0 .. 0xFFFF.
C7_PcSpRange ==
    phase = "loop" =>
        /\ gameboy.registers.PC \in 0 .. \hFFFF
        /\ gameboy.registers.SP \in 0 .. \hFFFF

\* C8: after every emulation step each 8-bit register is within 0 .. 255.
C8_ByteRegisters ==
    phase = "loop" =>
        \A r \in {"A", "F", "B", "C", "D", "E", "H", "L"} :
            gameboy.registers[r] \in 0 .. 255

\* C9: after every emulation step bits 0..3 of F are 0.
C9_FlagLowNibble ==
    phase = "loop" => BitAnd(gameboy.registers.F, \hF) = 0

(***************************************************************************)
(* PUSH and POP.                                                           *)
(***************************************************************************)
PushOpcodes == {\hC5, \hD5, \hE5, \hF5}
PopOf(push) == push - 4
PairHi(push) ==
    CASE push = \hC5 -> "B" [] push = \hD5 -> "D" [] push = \hE5 -> "H"
      [] push = \hF5 -> "A"
PairLo(push) ==
    CASE push = \hC5 -> "C" [] push = \hD5 -> "E" [] push = \hE5 -> "L"
      [] push = \hF5 -> "F"

\* video RAM, work RAM and high RAM: a write stores the byte and nothing else
OrdinaryRam == (\h8000 .. \h9FFF) \cup (\hC000 .. \hDFFF) \cup (\hFF80 .. \hFFFE)

\* the two bytes a push at stack pointer sp writes are in ordinary RAM
StackInRam(sp) == IsNum(sp) /\ sp - 1 \in OrdinaryRam /\ sp - 2 \in OrdinaryRam

\* C10: a PUSH rr at stack pointer sp (stack bytes in ordinary RAM) stores
\* the high register at sp - 1 and the low register at sp - 2 and leaves
\* SP = sp - 2; when the POP rr of the same pair is the next instruction
\* executed, both registers hold what they held before the PUSH and SP = sp.
C10_PushPop ==
    /\ ( /\ phase = "timers"
         /\ Len(history) >= 1
         /\ history[1].opcode \in PushOpcodes
         /\ StackInRam(history[1].before.registers.SP) )
       => LET b == history[1].before.registers
              op == history[1].opcode
          IN  /\ gameboy.registers.SP = b.SP - 2
              /\ read(gameboy.mmu, b.SP - 1) = b[PairHi(op)]
              /\ read(gameboy.mmu, b.SP - 2) = b[PairLo(op)]
    /\ ( /\ phase = "timers"
         /\ Len(history) = 2
         /\ history[2].opcode \in PushOpcodes
         /\ history[1].opcode = PopOf(history[2].opcode)
         /\ history[1].before.registers.PC = history[2].before.registers.PC + 1
         /\ StackInRam(history[2].before.registers.SP) )
       => LET b == history[2].before.registers
              op == history[2].opcode
          IN  /\ gameboy.registers.SP = b.SP
              /\ gameboy.registers[PairHi(op)] = b[PairHi(op)]
              /\ gameboy.registers[PairLo(op)] = b[PairLo(op)]

\* LD SP,0xD0D0; PUSH BC; POP BC has just executed its POP
C10_Witness ==
    /\ phase = "timers"
    /\ Len(history) = 2
    /\ history[2].opcode = \hC5
    /\ history[1].opcode = \hC1
    /\ history[2].before.registers.SP = \hD0D0
    /\ gameboy.registers.SP = \hD0D0
    /\ read(gameboy.mmu, \hD0CF) = 0
    /\ read(gameboy.mmu, \hD0CE) = \h13
    /\ gameboy.registers.C = \h13

(***************************************************************************)
(* The MMU on its own: calls of determineRomBankingType and write on a     *)
(* loaded cartridge.                                                       *)
(***************************************************************************)
\* a 1 MiB image with header byte 0x0147 = t (0x00 no controller, 0x01 MBC1,
\* 0x05 MBC2) whose banks 1, 5 and 0x21 differ in their first byte, and
\* banks 1 and 5 at offset 0x2000
Headed(t) ==
    [bytes |-> (\h147 :> t @@ \h4000 :> \h11 @@ \h6000 :> \h22
                @@ \h14000 :> \h55 @@ \h16000 :> \h66 @@ \h84000 :> \h77),
     size |-> \h100000]
MmuCarts == {Headed(0), Headed(1), Headed(5)}

MmuAddresses == {\h0000, \h0008, \h0010, \h2100, \h4000, \h6000, \hA000}
MmuData == {\h00, \h01, \h05, \h0A, \h1F, \h20, \h60, \hE0}

InitMMU == InitWith(MmuCarts)

DetermineRomBankingType ==
    /\ steps < MaxCalls
    /\ gameboy' = [gameboy EXCEPT !.mmu = determineRomBankingType(@)]
    /\ steps' = steps + 1
    /\ history' = <<[kind |-> "determineRomBankingType", opcode |-> undefined,
                     before |-> gameboy, address |-> undefined,
                     data |-> undefined]>>
    /\ UNCHANGED <<phase, cyclesExecuted, cycles, frames>>

Write ==
    /\ steps < MaxCalls
    /\ \E address \in MmuAddresses, data \in MmuData :
          /\ gameboy' = mmuWrite(gameboy, address, data)
          /\ history' = <<[kind |-> "write", opcode |-> undefined,
                           before |-> gameboy, address |-> address,
                           data |-> data]>>
    /\ steps' = steps + 1
    /\ UNCHANGED <<phase, cyclesExecuted, cycles, frames>>

NextMMU ==
    \/ DetermineRomBankingType
    \/ Write

SpecMMU == InitMMU /\ [][NextMMU]_vars

\* C6: whatever was written, the current ROM bank is at least 1.
C6_RomBankAtLeastOne == gameboy.mmu.currentRomBank >= 1

\* under MBC1 a bank-control write whose result would be bank 0 has just
\* been made, and the bank is 1
C6_Witness ==
    /\ Len(history) = 1
    /\ history[1].kind = "write"
    /\ history[1].before.mmu.mbc1
    /\ history[1].address = \h2100
    /\ history[1].data = \h00
    /\ history[1].before.mmu.currentRomBank = 5
    /\ gameboy.mmu.currentRomBank = 1

(***************************************************************************)
(* Writes to the cartridge ROM area.                                       *)
(***************************************************************************)
\* the last call was write(address, data) with address in the ROM area
RomWrite ==
    /\ Len(history) = 1
    /\ history[1].kind = "write"
    /\ history[1].address < \h8000

\* the write went to the upper-bits register of an MBC1 controller in ROM
\* banking mode
RomHiBankWrite ==
    /\ history[1].before.mmu.mbc1
    /\ history[1].before.mmu.romBanking
    /\ history[1].address \in \h4000 .. \h5FFF

\* C11 as stated: after write(a, v) with a in 0x0000-0x7FFF, read(a) returns
\* the byte read(a) returned before the write.
C11_RomWriteKeepsRead ==
    RomWrite =>
        read(gameboy.mmu, history[1].address)
            = read(history[1].before.mmu, history[1].address)

\* C11 amended: write(a, v) with a in 0x0000-0x7FFF changes neither the
\* backing array, nor the cartridge data, nor the external RAM; read(a)
\* returns the byte it returned before the write, except for a write to
\* 0x4000-0x5FFF under MBC1 in ROM banking mode, after which it returns the
\* byte at a - 0x4000 of the bank the write selected.
C11_RomWriteKeepsStorage ==
    RomWrite =>
        /\ gameboy.mmu.memory = history[1].before.mmu.memory
        /\ gameboy.mmu.cartridgeData = history[1].before.mmu.cartridgeData
        /\ gameboy.mmu.ramBanks = history[1].before.mmu.ramBanks
        /\ ~RomHiBankWrite =>
               read(gameboy.mmu, history[1].address)
                   = read(history[1].before.mmu, history[1].address)
        /\ RomHiBankWrite =>
               read(gameboy.mmu, history[1].address)
                   = CartByte(Cart, (history[1].address - \h4000)
                                      + gameboy.mmu.currentRomBank * \h4000)

\* under MBC1 with bank 5 selected, write(0x6000, 0x00) was made and
\* read(0x6000) is still the byte of bank 5
C11_Witness ==
    /\ RomWrite
    /\ history[1].before.mmu.mbc1
    /\ history[1].before.mmu.currentRomBank = 5
    /\ history[1].address = \h6000
    /\ history[1].data = \h00
    /\ read(gameboy.mmu, \h6000) = \h66

(***************************************************************************)
(* Stores to DIV and LY.                                                   *)
(***************************************************************************)
\* the instruction h was LDH (a8),A with operand a8, which is
\* mmu.write(0xFF00 + a8, A)
IsHighStore(h, a8) ==
    /\ h.opcode = \hE0
    /\ read(h.before.mmu, h.before.registers.PC + 1) = a8

\* C12: right after write(0xFF04, v), read(0xFF04) is 0, and right after
\* write(0xFF44, v), read(0xFF44) is 0, whatever v and the register held.
C12_DivLyWriteReadsZero ==
    \A a8 \in {\h04, \h44} :
        (phase = "timers" /\ Len(history) > 0 /\ IsHighStore(history[1], a8))
            => read(gameboy.mmu, \hFF00 + a8) = 0

\* DIV was not 0 when 0x5A was written to it, LY was not 0 when 0x5A was
\* written to it by the next instruction, and both read 0
C12_Witness ==
    /\ phase = "timers"
    /\ Len(history) = 2
    /\ IsHighStore(history[2], \h04)
    /\ IsHighStore(history[1], \h44)
    /\ history[2].before.registers.A = \h5A
    /\ read(history[2].before.mmu, \hFF04) > 0
    /\ read(history[1].before.mmu, \hFF44) > 0
    /\ read(gameboy.mmu, \hFF04) = 0
    /\ read(gameboy.mmu, \hFF44) = 0

(***************************************************************************)
(* The MMU on its own: calls of write to the work RAM, its echo, the OAM   *)
(* and the area above it.                                                  *)
(***************************************************************************)
RamAddresses == {\hC000, \hDDFF, \hE000, \hFDFF, \hFE9F, \hFEA0, \hFEFE, \hFEFF}
RamData == {\h00, \h5A, \hFF}

InitRam == InitWith({NopCart})

WriteRam ==
    /\ steps < MaxCalls
    /\ \E address \in RamAddresses, data \in RamData :
          /\ gameboy' = mmuWrite(gameboy, address, data)
          /\ history' = <<[kind |-> "write", opcode |-> undefined,
                           before |-> gameboy, address |-> address,
                           data |-> data]>>
    /\ steps' = steps + 1
    /\ UNCHANGED <<phase, cyclesExecuted, cycles, frames>>

NextRam == WriteRam

SpecRam == InitRam /\ [][NextRam]_vars

\* the cells of the backing array whose value differs between m1 and m2
Changed(m1, m2) ==
    {x \in DOMAIN m1.memory \cup DOMAIN m2.memory : Mem(m1, x) # Mem(m2, x)}

\* C13: write(a, v) with a in 0xFEA0-0xFEFF inclusive changes no cell of the
\* backing array and nothing else of the MMU.
C13_UnusableWriteDropped ==
    (Len(history) = 1 /\ history[1].address \in \hFEA0 .. \hFEFF) =>
        /\ Changed(history[1].before.mmu, gameboy.mmu) = {}
        /\ [gameboy.mmu EXCEPT !.memory = <<>>]
               = [history[1].before.mmu EXCEPT !.memory = <<>>]

\* C14: after write(a, v) with a in 0xE000-0xFDFF, read(a) and
\* read(a - 0x2000) are v and no other cell of the backing array changed.
C14_EchoWriteMirrored ==
    (Len(history) = 1 /\ history[1].address \in \hE000 .. \hFDFF) =>
        /\ read(gameboy.mmu, history[1].address) = history[1].data
        /\ read(gameboy.mmu, history[1].address - \h2000) = history[1].data
        /\ Changed(history[1].before.mmu, gameboy.mmu)
               \subseteq {history[1].address, history[1].address - \h2000}

\* 0xDDFF held 0xFF and 0xFDFF held 0x00 when write(0xFDFF, 0x5A) was made;
\* both read 0x5A
C14_Witness ==
    /\ Len(history) = 1
    /\ history[1].address = \hFDFF
    /\ history[1].data = \h5A
    /\ read(history[1].before.mmu, \hDDFF) = \hFF
    /\ read(history[1].before.mmu, \hFDFF) = \h00
    /\ read(gameboy.mmu, \hDDFF) = \h5A
    /\ read(gameboy.mmu, \hFDFF) = \h5A
    /\ Changed(history[1].before.mmu, gameboy.mmu) = {\hDDFF, \hFDFF}

(***************************************************************************)
(* Properties of single instructions.                                      *)
(***************************************************************************)
\* the instruction with this opcode has just been executed
JustExecuted(opcode) ==
    /\ phase = "timers"
    /\ Len(history) > 0
    /\ history[1].opcode = opcode

\* the byte at PC + i before the last instruction
Operand(i) == read(history[1].before.mmu, history[1].before.registers.PC + i)

\* C15: JP a16 leaves PC at the little-endian immediate, (hi << 8) | lo with
\* lo the first operand byte; bytes C3 50 01 at 0x0100 lead to PC = 0x0150.
C15_JumpLittleEndian ==
    JustExecuted(\hC3) =>
        gameboy.registers.PC = Operand(2) * 256 + Operand(1)

\* C16: JR r8 at p changes no register but PC and leaves PC = p + 2 +
\* signed(r8); with r8 = 0x00 that is p + 2.
C16_JumpRelative ==
    JustExecuted(\h18) =>
        /\ [gameboy.registers EXCEPT !.PC = 0]
               = [history[1].before.registers EXCEPT !.PC = 0]
        /\ gameboy.registers.PC
               = history[1].before.registers.PC + 2
                   + (IF Operand(1) > 127 THEN Operand(1) - 256 ELSE Operand(1))

\* flag `bit` of F after the last instruction, as a truth value
Flag(bit) == FlagBit(gameboy, bit) = 1

\* C17: ADD A,B leaves A = (a + b) mod 256, Z = (A = 0), N = 0, H = carry
\* from bit 3 and C = carry from bit 7, whatever the flags were before.
C17_AddFlags ==
    JustExecuted(\h80) =>
        LET a == history[1].before.registers.A
            b == history[1].before.registers.B
        IN  /\ gameboy.registers.A = (a + b) % 256
            /\ Flag(ZERO_BIT) = ((a + b) % 256 = 0)
            /\ ~Flag(SUBTRACT_BIT)
            /\ Flag(HALF_CARRY_BIT) = ((a % 16) + (b % 16) > 15)
            /\ Flag(CARRY_BIT) = (a + b > 255)

\* C18: SUB B leaves A = (a - b) mod 256, N = 1, H = borrow from bit 4 and
\* C = (a < b); an underflowing result wraps modulo 256.
C18_SubFlags ==
    JustExecuted(\h90) =>
        LET a == history[1].before.registers.A
            b == history[1].before.registers.B
        IN  /\ gameboy.registers.A = (a - b) % 256
            /\ Flag(SUBTRACT_BIT)
            /\ Flag(HALF_CARRY_BIT) = ((a % 16) < (b % 16))
            /\ Flag(CARRY_BIT) = (a < b)

\* C19: after ADD A,d8, SUB d8, INC A or DEC A, Z is set exactly when the
\* low byte of the result is 0.
C19_ZeroFlag ==
    (\E opcode \in {\hC6, \hD6, \h3C, \h3D} : JustExecuted(opcode)) =>
        Flag(ZERO_BIT) = (gameboy.registers.A % 256 = 0)

\* C20: no opcode of the defined instruction set leaves its step unfinished:
\* the driver is never left by an exception of executeOpcode on an opcode
\* that is not one of the eleven undefined ones.
C20_DefinedOpcodesComplete ==
    ~ /\ phase = "crashed"
      /\ Len(history) > 0
      /\ history[1].before = gameboy
      /\ history[1].opcode \in (0 .. 255) \ UndefinedOpcodes

(***************************************************************************)
(* Decimal adjust, interrupt dispatch, HALT, DI and EI.                    *)
(***************************************************************************)
\* both nibbles of b are decimal digits
IsBcd(b) == b \in 0 .. 255 /\ b % 16 <= 9 /\ b \div 16 <= 9

\* the BCD byte of n in 0..99
ToBcd(n) == (n \div 10) * 16 + (n % 10)

\* the number a BCD byte stands for
FromBcd(b) == (b \div 16) * 10 + (b % 16)

\* C21: ADD A,d8 (SUB d8) of BCD bytes x and y followed by DAA leaves the
\* BCD byte of (x + y) mod 100 (of (x - y) mod 100) in A, and after the
\* addition C is set exactly on decimal carry.
C21_DaaBcd ==
    (JustExecuted(\h27) /\ Len(history) = 2 /\ history[2].opcode \in {\hC6, \hD6}) =>
        LET x == history[2].before.registers.A
            y == read(history[2].before.mmu, history[2].before.registers.PC + 1)
        IN  (IsBcd(x) /\ IsBcd(y)) =>
                IF history[2].opcode = \hC6
                THEN /\ gameboy.registers.A = ToBcd((FromBcd(x) + FromBcd(y)) % 100)
                     /\ Flag(CARRY_BIT) = (FromBcd(x) + FromBcd(y) >= 100)
                ELSE gameboy.registers.A = ToBcd((FromBcd(x) - FromBcd(y)) % 100)

\* IF & IE restricted to the interrupt bits 0, 1, 2, 4
PendingBits == BitAnd(BitAnd(IF_, IE_), \h17)

\* the lowest-numbered interrupt bit set in x
LowestBit(x) ==
    CHOOSE b \in {0, 1, 2, 4} :
        /\ BitAnd(x, 2 ^ b) # 0
        /\ \A c \in {0, 1, 2, 4} : c < b => BitAnd(x, 2 ^ c) = 0

\* C22: an interrupt-service pass with IME set and an interrupt pending
\* services the lowest pending bit only: one return address is pushed, PC
\* is that bit's vector and only that bit of IF is cleared; with IME clear
\* the pass changes neither IF, nor SP, nor PC.
C22_OneInterruptPerPass ==
    [][ phase = "interrupts" =>
          /\ Pending =>
                /\ gameboy'.registers.PC
                      = (CASE LowestBit(PendingBits) = 0 -> \h40
                           [] LowestBit(PendingBits) = 1 -> \h48
                           [] LowestBit(PendingBits) = 2 -> \h50
                           [] LowestBit(PendingBits) = 4 -> \h60)
                /\ gameboy'.registers.SP = gameboy.registers.SP - 2
                /\ read(gameboy'.mmu, \hFF0F) = IF_ - 2 ^ LowestBit(PendingBits)
          /\ ~gameboy.interruptsEnabled =>
                /\ read(gameboy'.mmu, \hFF0F) = IF_
                /\ gameboy'.registers = gameboy.registers
      ]_vars

\* C23: a step that began halted with an interrupt pending (IE & IF # 0)
\* ends with the CPU no longer halted, whether or not IME is set.
C23_HaltResumes ==
    ~ /\ phase = "loop"
      /\ Len(history) > 0
      /\ history[1].before.halted
      /\ BitAnd(read(history[1].before.mmu, \hFF0F),
                read(history[1].before.mmu, \hFFFF)) # 0
      /\ gameboy.halted

\* C24: the step after a DI ends with IME clear, the step after an EI with
\* IME set, also when the same instruction is executed again in between,
\* and a counter is never left above 1 at the end of a step.
C24_DeferredSwitch ==
    (phase = "timers" /\ Len(history) = 2 /\ ~history[2].before.halted) =>
        /\ (history[2].opcode = \hF3 /\ history[1].opcode # \hFB)
               => ~gameboy.interruptsEnabled
        /\ (history[2].opcode = \hFB /\ history[1].opcode # \hF3)
               => gameboy.interruptsEnabled
        /\ gameboy.toDisableInterrupts \in {-1, 1}
        /\ gameboy.toEnableInterrupts \in {-1, 1}

DIV == read(gameboy.mmu, \hFF04)

\* the cartridges of the frame-level specification that never write to DIV
NoDivWrite == Cart # LoadedGameboy(IoCart).mmu.cartridgeData

\* C27: DIV counts the T-cycles elapsed in units of 256, modulo 256: between
\* two steps of the first frame, on a cartridge that does not write to DIV,
\* DIV is the reset value plus the whole number of 256-cycle units in the
\* cycles executed so far, whatever TAC holds.
C27_DivEvery256 ==
    (phase = "loop" /\ NoDivWrite) =>
        DIV = (read(LoadedGameboy(NopCart).mmu, \hFF04)
                 + (cyclesExecuted \div 256)) % 256

\* the mode bits of STAT, and LCDC bit 7
StatMode == BitAnd(read(gameboy.mmu, \hFF41), 3)
LcdOn == Truthy(isLcdDisplayEnabled(gameboy))

\* the T-cycles of the current scanline that have elapsed
Elapsed == 456 - gameboy.scanlineCounter

\* C28: between two steps, with the LCD enabled, the STAT mode is the one of
\* the position in the frame: on lines 0..143 mode 2 while up to 80 cycles
\* of the line have elapsed, mode 3 for the next 172 and mode 0 for the
\* rest; on lines 144..153 mode 1.
C28_ModeOfPosition ==
    (phase = "loop" /\ steps > 0 /\ LcdOn) =>
        /\ LY \in 144 .. 153 => StatMode = 1
        /\ LY \in 0 .. 143 =>
              StatMode = (IF Elapsed <= 80 THEN 2
                          ELSE IF Elapsed <= 80 + 172 THEN 3 ELSE 0)

(***************************************************************************)
(* Two frames on cartridges that write to LY and switch the LCD off and    *)
(* on again.                                                               *)
(***************************************************************************)
MaxLcdFrames == 2

\* NOPs up to 0x0300, then LDH (0x44),A; NOPs up to 0x0540, then LD A,0x11;
\* LDH (0x40),A (LCD off); NOPs up to 0x0700, then LD A,0x91; LDH (0x40),A
\* (LCD on again); NOPs
LcdCart ==
    [bytes |-> (\h300 :> \hE0 @@ \h301 :> \h44
                @@ \h540 :> \h3E @@ \h541 :> \h11 @@ \h542 :> \hE0 @@ \h543 :> \h40
                @@ \h700 :> \h3E @@ \h701 :> \h91 @@ \h702 :> \hE0 @@ \h703 :> \h40),
     size |-> \h8000]

InitLcd == InitWith({LcdCart, StackLoopCart})

\* setInterval calls emulationLoop again
LcdLoopStart ==
    /\ phase = "idle"
    /\ frames < MaxLcdFrames
    /\ phase' = "loop"
    /\ cyclesExecuted' = 0
    /\ frames' = frames + 1
    /\ UNCHANGED <<gameboy, cycles, steps, history>>

NextLcd ==
    \/ LcdLoopStart
    \/ ExecuteOpcode
    \/ UpdateTimers
    \/ UpdateGraphics
    \/ DoInterrupts
    \/ EmulationLoopEnd

SpecLcd == InitLcd /\ [][NextLcd]_vars

\* C29: LY stays within 0..153 over every step: the PPU update leaves it
\* alone until the scanline counter runs out, then adds one, going from 153
\* to 0; with the LCD disabled the update leaves LY 0; an instruction that
\* writes to 0xFF44 leaves LY 0.
C29_LyRange ==
    [][ /\ LY \in 0 .. 153 /\ LY' \in 0 .. 153
        /\ phase = "graphics" =>
              LY' = IF ~LcdOn THEN 0
                    ELSE IF gameboy.scanlineCounter - cycles <= 0
                    THEN (LY + 1) % 154
                    ELSE LY
        /\ phase \in {"timers", "interrupts"} => LY' = LY
        /\ (phase' = "timers" /\ IsHighStore(history'[1], \h44)) => LY' = 0 ]_vars

\* in the second frame the scanline counter ran out on line 153 and LY is 0
\* again, V-Blank having been requested on the way
C29_Witness ==
    /\ phase = "interrupts"
    /\ frames = 2
    /\ LcdOn
    /\ LY = 0
    /\ gameboy.scanlineCounter = 456
    /\ BitAnd(IF_, 1) = 1

\* C30: a PPU update with LCDC bit 7 clear leaves STAT mode 1, the scanline
\* counter at 456 and LY 0, and changes nothing else: no interrupt is
\* requested and no scanline is drawn; between two such updates the
\* scanline counter does not go down.
C30_LcdDisabled ==
    [][ /\ (phase = "graphics" /\ ~LcdOn) =>
              /\ StatMode' = 1
              /\ gameboy'.scanlineCounter = 456
              /\ LY' = 0
              /\ IF_' = IF_
              /\ phase' = "interrupts"
              /\ gameboy' = [gameboy EXCEPT
                                !.scanlineCounter = 456,
                                !.mmu.memory = gameboy'.mmu.memory]
              /\ \A a \in DOMAIN gameboy.mmu.memory \cup DOMAIN gameboy'.mmu.memory :
                    a \notin {\hFF41, \hFF44} =>
                        read(gameboy'.mmu, a) = read(gameboy.mmu, a)
        /\ (~LcdOn /\ ~LcdOn') =>
              gameboy'.scanlineCounter >= gameboy.scanlineCounter ]_vars

\* the LCD was switched off in the middle of a line, and the update of that
\* step has put LY to 0 and the mode to 1
C30_Witness ==
    /\ phase = "interrupts"
    /\ ~LcdOn
    /\ Len(history) > 0
    /\ IsHighStore(history[1], \h40)
    /\ read(history[1].before.mmu, \hFF44) > 0
    /\ BitAnd(read(history[1].before.mmu, \hFF41), 3) # 1
    /\ history[1].before.scanlineCounter < 456
    /\ StatMode = 1 /\ LY = 0 /\ gameboy.scanlineCounter = 456

(***************************************************************************)
(* One invocation of the frame loop, run to its end.  The while loop is    *)
(* sequential code: a statement of it that can run does run (weak fairness *)
(* of each of its steps).  Every address above 0xFFFF reads as undefined,  *)
(* so states that differ only in a PC above MaxPC have the same future: PC *)
(* is followed up to MaxPC and held there.  The step counter and the       *)
(* history are not kept.                                                   *)
(***************************************************************************)
\* 0x10004
MaxPC == 65540

\* JP with operand bytes FF FF: execution continues at 0xFFFF and runs off
\* the end of the address space
RunOffCart == Program(<<\hC3, \hFF, \hFF>>)

InitFrame == InitWith({NopCart, RunOffCart})

FrameStep ==
    /\ phase = "loop"
    /\ JsLt(cyclesExecuted, MAXCYCLES)
    /\ ~gameboy.cpuStopped
    /\ gameboy.halted \/ ~IsNum(NextOpcode(gameboy))
         \/ NextOpcode(gameboy) \in ModelledOpcodes \cup UndefinedOpcodes
    /\ \E r \in {executeOpcode(gameboy)} :
          IF r.threw
          THEN /\ phase' = "crashed"
               /\ UNCHANGED <<gameboy, cyclesExecuted, cycles>>
          ELSE /\ phase' = NextPhase(phase)
               /\ gameboy' = IF r.g.registers.PC > MaxPC
                              THEN [r.g EXCEPT !.registers.PC = MaxPC]
                              ELSE r.g
               /\ cycles' = r.cycles
               /\ cyclesExecuted' = JsAdd(cyclesExecuted, r.cycles)
    /\ UNCHANGED <<frames, steps, history>>

NextFrame ==
    \/ EmulationLoopStart
    \/ FrameStep
    \/ UpdateTimers
    \/ UpdateGraphics
    \/ DoInterrupts
    \/ EmulationLoopEnd

\* UpdateGraphics can run exactly when phase = "graphics"
SpecFrame ==
    /\ InitFrame
    /\ [][NextFrame]_vars
    /\ WF_vars(EmulationLoopStart)
    /\ WF_vars(FrameStep)
    /\ WF_vars(UpdateTimers)
    /\ ([]<>(phase # "graphics") \/ []<><<UpdateGraphics>>_vars)
    /\ WF_vars(DoInterrupts)
    /\ WF_vars(EmulationLoopEnd)

\* C25: every invocation of the frame loop comes to its end: the cycle count
\* reaches the budget after finitely many steps.
C25_FrameTerminates == (phase = "loop") ~> (phase = "idle")


(***************************************************************************)
(* Joypad.  The key handlers of the page run between two invocations of    *)
(* emulationLoop; the keys are pressed once the frames followed have run.  *)
(***************************************************************************)
MaxJoypadFrames == 1

\* the key bits the key-event source sends: Right, Left, A, Start
Keys == {0, 1, 4, 7}

keyPressed(g, keyBit) ==
    Let([g EXCEPT !.cpuStopped = FALSE], LAMBDA g1 :
    Let(~Truthy(BitAnd(Shr(g1.mmu.JOYPAD, keyBit), 1)), LAMBDA alreadyPressed :
    Let([g1 EXCEPT !.mmu.JOYPAD = BitAnd(@, BitNot(Shl(1, keyBit)))], LAMBDA g2 :
    Let(read(g2.mmu, \hFF00), LAMBDA joypadMemValue :
    Let(Truthy(BitAnd(joypadMemValue, \h10)), LAMBDA bitFourSet :
    Let(Truthy(BitAnd(joypadMemValue, \h20)), LAMBDA bitFiveSet :
    Let(\/ bitFourSet /\ ~bitFiveSet /\ keyBit <= 3
        \/ ~bitFourSet /\ bitFiveSet /\ keyBit > 3, LAMBDA shouldRequestInterrupt :
        IF shouldRequestInterrupt /\ ~alreadyPressed
        THEN requestInterrupt(g2, 4) ELSE g2)))))))

keyReleased(g, keyBit) ==
    [g EXCEPT !.mmu.JOYPAD = BitOr(@, Shl(1, keyBit))]

\* LD A,sel; LDH (0x00),A; JP 0x0104 (the code reads the operand high byte
\* first): the selector is written, then a loop of 12 T-cycles
SelectorCart(sel) == Program(<<\h3E, sel, \hE0, \h00, \hC3, \h01, \h04>>)

\* directions selected (bit 4 = 0), buttons selected (bit 5 = 0), both, none
JoypadCarts == {SelectorCart(s) : s \in {\h20, \h10, \h00, \h30}}

InitJoypad == InitWith(JoypadCarts)

JoypadLoopStart ==
    /\ phase = "idle"
    /\ frames < MaxJoypadFrames
    /\ phase' = "loop"
    /\ cyclesExecuted' = 0
    /\ frames' = frames + 1
    /\ UNCHANGED <<gameboy, cycles, steps, history>>

\* document.onkeydown
KeyPressed ==
    /\ phase = "idle"
    /\ frames = MaxJoypadFrames
    /\ \E keyBit \in Keys :
          /\ gameboy' = keyPressed(gameboy, keyBit)
          /\ history' = Record(history, [kind |-> "keyPressed", opcode |-> undefined,
                                          key |-> keyBit, before |-> gameboy])
    /\ UNCHANGED <<phase, cyclesExecuted, cycles, frames, steps>>

\* document.onkeyup
KeyReleased ==
    /\ phase = "idle"
    /\ frames = MaxJoypadFrames
    /\ \E keyBit \in Keys :
          /\ gameboy' = keyReleased(gameboy, keyBit)
          /\ history' = Record(history, [kind |-> "keyReleased", opcode |-> undefined,
                                          key |-> keyBit, before |-> gameboy])
    /\ UNCHANGED <<phase, cyclesExecuted, cycles, frames, steps>>

NextJoypad ==
    \/ JoypadLoopStart
    \/ ExecuteOpcode
    \/ UpdateTimers
    \/ UpdateGraphics
    \/ DoInterrupts
    \/ EmulationLoopEnd
    \/ KeyPressed
    \/ KeyReleased

SpecJoypad == InitJoypad /\ [][NextJoypad]_vars

\* shadow bit k of the joypad; the Array initialize() fills holds 1 for
\* every key
ShadowBit(m, k) == IF IsNum(m.JOYPAD) THEN BitAnd(Shr(m.JOYPAD, k), 1) ELSE 1

\* the selector stored at 0xFF00 selects the class of key k (0 = selected)
ClassSelected(m, k) ==
    BitAnd(Mem(m, \hFF00), IF k <= 3 THEN \h10 ELSE \h20) = 0

\* C31: keyPressed(k) requests the joypad interrupt (IF bit 4) exactly when
\* the key was released and the selector selects its class; afterwards the
\* stop flag is clear, shadow bit k is 0 and the other shadow bits are as
\* they were.
C31_KeyPressed ==
    (Len(history) > 0 /\ history[1].kind = "keyPressed") =>
        Let(history[1].before, LAMBDA b :
        Let(history[1].key, LAMBDA k :
            /\ ~gameboy.cpuStopped
            /\ ShadowBit(gameboy.mmu, k) = 0
            /\ \A j \in 0 .. 7 :
                  j # k => ShadowBit(gameboy.mmu, j) = ShadowBit(b.mmu, j)
            /\ IF ShadowBit(b.mmu, k) = 1 /\ ClassSelected(b.mmu, k)
               THEN BitAnd(IF_, \h10) # 0
               ELSE IF_ = read(b.mmu, \hFF0F)))


\* the shadow bits k .. k + 3 as a nibble
ShadowNibble(m, k) ==
    ShadowBit(m, k) + 2 * ShadowBit(m, k + 1) + 4 * ShadowBit(m, k + 2)
        + 8 * ShadowBit(m, k + 3)

\* C32: once the program has stored a selector, a read of 0xFF00 gives bits
\* 6..7 set, bits 4..5 as stored, and in bits 0..3 the shadow nibble of the
\* one class selected (1 = released): 1111 when no key is pressed; and a
\* key pressed and released again leaves the value read as it was.
C32_JoypadRead ==
    /\ \hFF00 \in DOMAIN gameboy.mmu.memory =>
          Let(read(gameboy.mmu, \hFF00), LAMBDA v :
          Let(Mem(gameboy.mmu, \hFF00), LAMBDA sel :
              /\ BitAnd(v, \hC0) = \hC0
              /\ BitAnd(v, \h30) = BitAnd(sel, \h30)
              /\ BitAnd(sel, \h30) = \h20 =>
                    BitAnd(v, \h0F) = ShadowNibble(gameboy.mmu, 0)
              /\ BitAnd(sel, \h30) = \h10 =>
                    BitAnd(v, \h0F) = ShadowNibble(gameboy.mmu, 4)
              /\ (\A k \in 0 .. 7 : ShadowBit(gameboy.mmu, k) = 1) =>
                    BitAnd(v, \h0F) = \h0F))
    /\ ( /\ Len(history) = 2
         /\ history[1].kind = "keyReleased"
         /\ history[2].kind = "keyPressed"
         /\ history[1].key = history[2].key
         /\ ShadowBit(history[2].before.mmu, history[2].key) = 1 )
          => read(gameboy.mmu, \hFF00) = read(history[2].before.mmu, \hFF00)


\* C33: STOP sets the stop flag and leaves PC two bytes on; with the flag
\* set the frame driver runs no CPU step.
C33_StopSetsFlag ==
    /\ JustExecuted(\h10) =>
          /\ gameboy.cpuStopped
          /\ gameboy.registers.PC = history[1].before.registers.PC + 2
    /\ (phase = "timers" /\ Len(history) > 0) => ~history[1].before.cpuStopped


(***************************************************************************)
(* STAT interrupts: a frame on cartridges that enable the LCD interrupt    *)
(* and some of the STAT mode interrupts, and return from the handler.      *)
(***************************************************************************)
\* LD A,0x02; LDH (0xFF),A; LD A,e; LDH (0x41),A; JP 0x0108 (operand high
\* byte first); RETI at 0x0048
StatCart(e) ==
    [bytes |-> Program(<<\h3E, \h02, \hE0, \hFF, \h3E, e, \hE0, \h41,
                         \hC3, \h01, \h08>>).bytes @@ (\h48 :> \hD9),
     size |-> \h8000]

\* the STAT enable bits written: mode 0 only; modes 1 and 2; modes 0 and 2
StatCarts == {StatCart(e) : e \in {\h08, \h30, \h28}}

InitStat == InitWith(StatCarts)

SpecStat == InitStat /\ [][Next]_vars

\* the STAT interrupt-enable bit of a mode; mode 3 has none
ModeEnableBit(mode) ==
    CASE mode = 0 -> \h08 [] mode = 1 -> \h10 [] mode = 2 -> \h20 [] OTHER -> 0

\* LY = LYC with the coincidence interrupt enabled (STAT bit 6)
CoincidenceInterrupt ==
    /\ LY = read(gameboy.mmu, \hFF45)
    /\ BitAnd(read(gameboy.mmu, \hFF41), \h40) # 0

C35_RenderEachVisibleLine ==
    [][ (phase = "graphics" /\ LcdOn) =>
            \E r \in {updateGraphics(gameboy, cycles)} :
                /\ r.drawn # undefined =>
                      r.drawn = LY' /\ LY' # LY /\ LY' \in 0 .. 143
                /\ (LY' # LY /\ LY' \in 0 .. 143) => r.drawn = LY' ]_vars


(***************************************************************************)
(* Bank-control writes: RAM enable, ROM bank bits, RAM bank.               *)
(***************************************************************************)
\* the last MMU call was write(address, data) with address in lo .. hi
WroteTo(lo, hi) ==
    /\ Len(history) = 1
    /\ history[1].kind = "write"
    /\ history[1].address \in lo .. hi

\* C36: a write to 0x0000-0x1FFF with mbc1 or mbc2 set enables external RAM
\* when the low nibble of the byte is 0xA, disables it when it is 0x0 and
\* leaves it alone otherwise; under MBC2 it is ignored exactly when bit 4
\* of the address is 1; with neither flag set it changes nothing.
C36_RamEnable ==
    WroteTo(\h0000, \h1FFF) =>
        Let(history[1].before.mmu, LAMBDA b :
        Let(BitAnd(history[1].data, \hF), LAMBDA lowerNibble :
            IF ~(b.mbc1 \/ b.mbc2) \/ (b.mbc2 /\ BitAnd(history[1].address, \h10) # 0)
            THEN gameboy.mmu = b
            ELSE gameboy.mmu.enableRam
                    = (IF lowerNibble = \hA THEN TRUE
                       ELSE IF lowerNibble = 0 THEN FALSE ELSE b.enableRam)))

\* C37: with mbc1 set the ROM bank index stays within 1..127, and a write
\* of v to 0x4000-0x5FFF in ROM-banking mode leaves bits 0..4 of the index
\* and gives it bits 5..6 of v.
C37_RomBankRange ==
    gameboy.mmu.mbc1 =>
        /\ gameboy.mmu.currentRomBank \in 1 .. 127
        /\ (WroteTo(\h4000, \h5FFF) /\ history[1].before.mmu.mbc1
                /\ history[1].before.mmu.romBanking) =>
              /\ BitAnd(gameboy.mmu.currentRomBank, \h1F)
                    = BitAnd(history[1].before.mmu.currentRomBank, \h1F)
              /\ BitAnd(gameboy.mmu.currentRomBank, \hE0)
                    = BitAnd(history[1].data, \h60)

\* C38: with mbc1 set, a write of v to 0x4000-0x5FFF in RAM-banking mode
\* makes the RAM bank v mod 4; the RAM bank stays within 0..3; a write to
\* 0x6000-0x7FFF with bit 0 clear selects ROM-banking mode and RAM bank 0.
C38_RamBank ==
    /\ gameboy.mmu.currentRamBank \in 0 .. 3
    /\ (WroteTo(\h4000, \h5FFF) /\ history[1].before.mmu.mbc1
            /\ ~history[1].before.mmu.romBanking) =>
          gameboy.mmu.currentRamBank = history[1].data % 4
    /\ (WroteTo(\h6000, \h7FFF) /\ history[1].before.mmu.mbc1
            /\ history[1].data % 2 = 0) =>
          gameboy.mmu.romBanking /\ gameboy.mmu.currentRamBank = 0


\* C39: a frame that the stop flag did not cut short has executed at least
\* 70,224 T-cycles when the frame loop ends.
C39_FrameCycles ==
    (phase = "idle" /\ frames > 0 /\ ~gameboy.cpuStopped) => cyclesExecuted >= 70224


\* the bytes of a conditional control instruction: opcode and operands
ConditionalLength(opcode) ==
    CASE opcode = \h20 -> 2 [] opcode = \hC0 -> 1 [] opcode = \hC2 -> 3
      [] opcode = \hC4 -> 3

\* C40: JR NZ, RET NZ, JP NZ and CALL NZ executed with Z set change nothing
\* but PC, which points at the byte after the instruction's operand bytes.
C40_ConditionFalse ==
    \A opcode \in {\h20, \hC0, \hC2, \hC4} :
        (JustExecuted(opcode) /\ BitAnd(history[1].before.registers.F, \h80) # 0) =>
            gameboy = [history[1].before EXCEPT
                          !.registers.PC = @ + ConditionalLength(opcode)]

====
